---- MODULE Spec2Model ----
(***************************************************************************)
(* A model of the event-time panel pipeline of the Steam scrapers:         *)
(*   patch_extractor.classify_patch            (keyword classifier)        *)
(*   patch_extractor.extract_patches_for_games (per-game patch summary)    *)
(*   collect_panel_for_did.build_panel         (monthly normalisation and  *)
(*                                              the -4..+4 panel rows)     *)
(*                                                                         *)
(* Conventions.  A Python value that may be None is a sequence of length   *)
(* at most one: None is << >> and a present value v is << v >>.  A str is  *)
(* a sequence of one-character strings, so that "kw in text" is a real     *)
(* substring test.  A date string "YYYY-MM-DD" is the tuple <<y, m, d>>,   *)
(* a "YYYY-MM" string is <<y, m>>, and strings of one format are ordered   *)
(* lexicographically, as Python orders them.  A datetime / Timestamp is a  *)
(* record [year, month, day]; time is counted in whole days (a unix        *)
(* timestamp is a day number since 1970-01-01).  A float is a reduced      *)
(* fraction [n, d].                                                        *)
(***************************************************************************)
EXTENDS Integers, Sequences, FiniteSets, TLC

VARIABLES
    pc,              \* position of the program under analysis
    title,           \* classify_patch: argument title
    contents,        \* classify_patch: argument contents
    classification,  \* classify_patch: returned value (None or a 3-tuple)
    series,          \* fetch_monthly_series result handed to the normaliser
    df_series,       \* the normalised frame built from series
    appids,          \* build_panel: argument appids
    ex,              \* extract_patches_for_games: games summarised so far
    patch_summary,   \* patch_out['summary'], keyed by appid
    frames,          \* df_series of every game processed so far (recorded)
    rows,            \* build_panel: the rows list
    games,           \* extract_patches_for_games: argument appids
    responses,       \* response to the news request of each game handled
    summaries,       \* extract_patches_for_games: summary
    all_patches,     \* extract_patches_for_games: all_patches
    rerun,           \* second run over the same news: games handled
    rerun_summary,   \* second run: summary
    rerun_patches,   \* second run: all_patches
    cache,           \* SteamCache: the rows of table cache
    clock,           \* time.time(), in seconds since the cache was opened
    elapses,         \* how often time has been let pass
    got,             \* what the last cache operation returned
    last_set,        \* per key, the latest set since the last clear (recorded)
    min_interval,    \* RateLimiter.min_interval of the SteamDB client
    max_403_retries, \* SteamDBScraper.max_403_retries
    last_call_age,   \* time.time() - RateLimiter._last_call
    request_age,     \* time since the client's last outbound request
    backoff,         \* _get_html: backoff
    tries,           \* _get_html: tries
    user_agent,      \* session.headers["User-Agent"]
    sent,            \* the last outbound request (recorded)
    outcome,         \* how the last request ended and the pause after it
    html,            \* what the last _get_html returned
    build_appids,    \* build_panel: argument appids, for the requests it makes
    game,            \* position of the running loop in build_appids
    cached,          \* keys the cache holds an unexpired entry for
    requests,        \* outbound requests of the last fetch (recorded)
    control_series,  \* fetch_monthly_series result of a control game
    control_rows,    \* the rows build_panel appended for that game
    use_cache,       \* build_panel: argument use_cache
    entries,         \* table cache of steam_cache.db, by (endpoint, appid)
    last_fetch,      \* the last fetch_app call and what it did (recorded)
    keeps_lock,      \* a cursor with rows left keeps the read lock of its SELECT
    shared_row,      \* the row of one key in the table concurrent callers share
    caller_pc,       \* per caller: idle, read (expired row seen) or writing
    caller_read,     \* per caller: the row its SELECT returned
    caller_op,       \* per caller: the statement waiting for its commit
    caller_result,   \* per caller: how its last operation ended
    lost,            \* a DELETE removed a row written after the SELECT (recorded)
    batch_appids,    \* build_panel over imperfect payloads: argument appids
    batch_ex,        \* games extract_patches_for_games has summarised
    batch_summary,   \* patch_out['summary']
    batch_fetched,   \* per game processed: what its three fetches gave (recorded)
    batch_rows       \* the rows list

vars == << pc, title, contents, classification, series, df_series,
           appids, ex, patch_summary, frames, rows,
           games, responses, summaries, all_patches,
           rerun, rerun_summary, rerun_patches,
           cache, clock, elapses, got, last_set,
           min_interval, max_403_retries, last_call_age, request_age,
           backoff, tries, user_agent, sent, outcome, html,
           build_appids, game, cached, requests,
           control_series, control_rows,
           use_cache, entries, last_fetch,
           keeps_lock, shared_row, caller_pc, caller_read, caller_op,
           caller_result, lost,
           batch_appids, batch_ex, batch_summary, batch_fetched, batch_rows >>

----------------------------------------------------------------------------
(* Optional values and small helpers                                       *)

None == << >>

Some(v) == << v >>

Min2(a, b) == IF a <= b THEN a ELSE b

Abs(x) == IF x < 0 THEN -x ELSE x

RECURSIVE Gcd(_, _)
Gcd(a, b) == IF b = 0 THEN a ELSE Gcd(b, a % b)

\* float(x) of a quotient of integers, den > 0, as a reduced fraction
Frac(num, den) ==
    LET g == Gcd(Abs(num), den)
    IN  [n |-> num \div g, d |-> den \div g]

\* float(x) of an integer
Float(x) == Frac(x, 1)

\* all sequences over S of length at most n
SeqsUpTo(S, n) == UNION {[1..k -> S] : k \in 0..n}

----------------------------------------------------------------------------
(* Text: str.lower, concatenation and the "in" substring test              *)

UpperToLower ==
    ("A" :> "a") @@ ("B" :> "b") @@ ("C" :> "c") @@ ("D" :> "d")
    @@ ("E" :> "e") @@ ("F" :> "f") @@ ("G" :> "g") @@ ("H" :> "h")
    @@ ("I" :> "i") @@ ("J" :> "j") @@ ("K" :> "k") @@ ("L" :> "l")
    @@ ("M" :> "m") @@ ("N" :> "n") @@ ("O" :> "o") @@ ("P" :> "p")
    @@ ("Q" :> "q") @@ ("R" :> "r") @@ ("S" :> "s") @@ ("T" :> "t")
    @@ ("U" :> "u") @@ ("V" :> "v") @@ ("W" :> "w") @@ ("X" :> "x")
    @@ ("Y" :> "y") @@ ("Z" :> "z")

Lower(s) ==
    [k \in 1..Len(s) |->
        IF s[k] \in DOMAIN UpperToLower THEN UpperToLower[s[k]] ELSE s[k]]

\* kw in text
Contains(text, kw) ==
    \E k \in 1..(Len(text) - Len(kw) + 1) :
        SubSeq(text, k, k + Len(kw) - 1) = kw

\* any(kw in text for kw in kws)
AnyIn(kws, text) == \E j \in 1..Len(kws) : Contains(text, kws[j])

Space == << " " >>

----------------------------------------------------------------------------
(* patch_extractor.classify_patch                                          *)

patch_keywords ==
    << <<"p", "a", "t", "c", "h">>,
       <<"u", "p", "d", "a", "t", "e">>,
       <<"h", "o", "t", "f", "i", "x">>,
       <<"f", "i", "x">>,
       <<"b", "u", "g">>,
       <<"b", "a", "l", "a", "n", "c", "e">>,
       <<"e", "x", "p", "a", "n", "s", "i", "o", "n">>,
       <<"d", "l", "c">>,
       <<"c", "o", "n", "t", "e", "n", "t", " ", "u", "p", "d", "a", "t", "e">>,
       <<"n", "e", "w", " ", "f", "e", "a", "t", "u", "r", "e">>,
       <<"m", "a", "i", "n", "t", "e", "n", "a", "n", "c", "e">>,
       <<"a", "d", "j", "u", "s", "t", "m", "e", "n", "t">>,
       <<"t", "w", "e", "a", "k">>,
       <<"i", "m", "p", "r", "o", "v", "e", "m", "e", "n", "t">> >>

major_indicators ==
    << <<"m", "a", "j", "o", "r", " ", "u", "p", "d", "a", "t", "e">>,
       <<"m", "a", "j", "o", "r", " ", "p", "a", "t", "c", "h">>,
       <<"e", "x", "p", "a", "n", "s", "i", "o", "n">>,
       <<"n", "e", "w", " ", "c", "o", "n", "t", "e", "n", "t">>,
       <<"n", "e", "w", " ", "f", "e", "a", "t", "u", "r", "e">>,
       <<"n", "e", "w", " ", "g", "a", "m", "e", " ", "m", "o", "d", "e">>,
       <<"n", "e", "w", " ", "m", "a", "p">>,
       <<"n", "e", "w", " ", "c", "h", "a", "r", "a", "c", "t", "e", "r">>,
       <<"g", "a", "m", "e", "p", "l", "a", "y", " ", "c", "h", "a", "n", "g", "e">>,
       <<"m", "e", "c", "h", "a", "n", "i", "c", " ", "c", "h", "a", "n", "g", "e">>,
       <<"o", "v", "e", "r", "h", "a", "u", "l">>,
       <<"s", "u", "b", "s", "t", "a", "n", "t", "i", "a", "l">>,
       <<"s", "i", "g", "n", "i", "f", "i", "c", "a", "n", "t">>,
       <<"m", "a", "s", "s", "i", "v", "e">>,
       <<"c", "o", "m", "p", "l", "e", "t", "e", " ", "r", "e", "w", "o", "r", "k">> >>

minor_indicators ==
    << <<"h", "o", "t", "f", "i", "x">>,
       <<"b", "u", "g", " ", "f", "i", "x">>,
       <<"s", "m", "a", "l", "l", " ", "f", "i", "x">>,
       <<"m", "i", "n", "o", "r">>,
       <<"p", "e", "r", "f", "o", "r", "m", "a", "n", "c", "e">>,
       <<"c", "o", "s", "m", "e", "t", "i", "c">>,
       <<"v", "i", "s", "u", "a", "l">>,
       <<"b", "a", "l", "a", "n", "c", "e", " ", "a", "d", "j", "u", "s", "t", "m", "e", "n", "t">>,
       <<"t", "w", "e", "a", "k">>,
       <<"a", "d", "j", "u", "s", "t", "m", "e", "n", "t">>,
       <<"s", "t", "a", "b", "i", "l", "i", "t", "y">> >>

kw_bug_fix == <<"b", "u", "g", " ", "f", "i", "x">>

kw_hotfix == <<"h", "o", "t", "f", "i", "x">>

\* combined = (title + " " + contents).lower()
Combined(t, c) == Lower(t \o Space \o c)

\* classify_patch with the two tests in the other order: a minor indicator
\* wins over a major one
classify_patch_minor_first(t, c) ==
    LET combined == Combined(t, c)
        is_patch == AnyIn(patch_keywords, combined)
        is_major_candidate == AnyIn(major_indicators, combined)
        is_minor_candidate == AnyIn(minor_indicators, combined)
    IN  IF ~is_patch THEN None
        ELSE IF is_minor_candidate
             THEN << TRUE, FALSE, "minor_keywords" >>
        ELSE IF is_major_candidate
             THEN << TRUE, TRUE, "major_keywords" >>
        ELSE IF Contains(combined, kw_bug_fix) \/ Contains(combined, kw_hotfix)
             THEN << TRUE, FALSE, "default_minor" >>
        ELSE << TRUE, TRUE, "default_major" >>

\* classify_patch taking an indicator of either list as a sign of a patch
classify_patch_indicator_is_patch(t, c) ==
    LET combined == Combined(t, c)
        is_major_candidate == AnyIn(major_indicators, combined)
        is_minor_candidate == AnyIn(minor_indicators, combined)
        is_patch == \/ AnyIn(patch_keywords, combined)
                    \/ is_major_candidate \/ is_minor_candidate
    IN  IF ~is_patch THEN None
        ELSE IF is_minor_candidate /\ ~is_major_candidate
             THEN << TRUE, FALSE, "minor_keywords" >>
        ELSE IF is_major_candidate
             THEN << TRUE, TRUE, "major_keywords" >>
        ELSE IF Contains(combined, kw_bug_fix) \/ Contains(combined, kw_hotfix)
             THEN << TRUE, FALSE, "default_minor" >>
        ELSE << TRUE, TRUE, "default_major" >>

\* classify_patch with "bug fix" and "hotfix" taken off the minor indicators
classify_patch_fix_not_indicator(t, c) ==
    LET combined == Combined(t, c)
        is_patch == AnyIn(patch_keywords, combined)
        is_major_candidate == AnyIn(major_indicators, combined)
        is_minor_candidate ==
            AnyIn(SelectSeq(minor_indicators,
                            LAMBDA k : k \notin {kw_bug_fix, kw_hotfix}),
                  combined)
    IN  IF ~is_patch THEN None
        ELSE IF is_minor_candidate /\ ~is_major_candidate
             THEN << TRUE, FALSE, "minor_keywords" >>
        ELSE IF is_major_candidate
             THEN << TRUE, TRUE, "major_keywords" >>
        ELSE IF Contains(combined, kw_bug_fix) \/ Contains(combined, kw_hotfix)
             THEN << TRUE, FALSE, "default_minor" >>
        ELSE << TRUE, TRUE, "default_major" >>

classify_patch(t, c) ==
    LET combined == Combined(t, c)
        is_patch == AnyIn(patch_keywords, combined)
        is_major_candidate == AnyIn(major_indicators, combined)
        is_minor_candidate == AnyIn(minor_indicators, combined)
    IN  IF ~is_patch THEN None
        ELSE IF is_minor_candidate /\ ~is_major_candidate
             THEN << TRUE, FALSE, "minor_keywords" >>
        ELSE IF is_major_candidate
             THEN << TRUE, TRUE, "major_keywords" >>
        ELSE IF Contains(combined, kw_bug_fix) \/ Contains(combined, kw_hotfix)
             THEN << TRUE, FALSE, "default_minor" >>
        ELSE << TRUE, TRUE, "default_major" >>

----------------------------------------------------------------------------
(* Dates: datetime.utcfromtimestamp, strftime, fromisoformat, DateOffset   *)

\* day number since 1970-01-01 of the civil date y-m-d
DaysFromCivil(y, m, d) ==
    LET yy  == IF m <= 2 THEN y - 1 ELSE y
        era == yy \div 400
        yoe == yy - era * 400
        mp  == IF m > 2 THEN m - 3 ELSE m + 9
        doy == (153 * mp + 2) \div 5 + d - 1
        doe == yoe * 365 + yoe \div 4 - yoe \div 100 + doy
    IN  era * 146097 + doe - 719468

\* datetime.utcfromtimestamp(unix_ts), unix_ts a day number
UtcFromTimestamp(ts) ==
    LET z   == ts + 719468
        era == z \div 146097
        doe == z - era * 146097
        yoe == (doe - doe \div 1460 + doe \div 36524 - doe \div 146096) \div 365
        doy == doe - (365 * yoe + yoe \div 4 - yoe \div 100)
        mp  == (5 * doy + 2) \div 153
        dd  == doy - (153 * mp + 2) \div 5 + 1
        mm  == IF mp < 10 THEN mp + 3 ELSE mp - 9
        yy  == yoe + era * 400 + (IF mm <= 2 THEN 1 ELSE 0)
    IN  [year |-> yy, month |-> mm, day |-> dd]

\* dt1 < dt2 on datetimes
DtLess(a, b) ==
    \/ a.year < b.year
    \/ a.year = b.year /\ a.month < b.month
    \/ a.year = b.year /\ a.month = b.month /\ a.day < b.day

\* dt.strftime("%Y-%m-%d ..."): the date string of a datetime
Strftime(dt) == << dt.year, dt.month, dt.day >>

\* dt.strftime('%Y-%m')
StrftimeYm(dt) == << dt.year, dt.month >>

\* s1 < s2 on strings of one fixed-width date format (lexicographic)
RECURSIVE StrLess(_, _)
StrLess(a, b) ==
    IF a = << >> THEN b # << >>
    ELSE IF b = << >> THEN FALSE
    ELSE IF Head(a) # Head(b) THEN Head(a) < Head(b)
    ELSE StrLess(Tail(a), Tail(b))

\* min(...) / max(...) over a non-empty set of date strings
StrMin(S) == CHOOSE s \in S : \A t \in S : ~StrLess(t, s)

StrMax(S) == CHOOSE s \in S : \A t \in S : ~StrLess(s, t)

IsLeap(y) == (y % 4 = 0 /\ y % 100 # 0) \/ y % 400 = 0

DaysInMonth(y, m) ==
    IF m = 2 THEN (IF IsLeap(y) THEN 29 ELSE 28)
    ELSE IF m \in {4, 6, 9, 11} THEN 30 ELSE 31

\* a "YYYY-MM-DD" string that names a real date
IsDateString(s) ==
    /\ Len(s) = 3
    /\ s[2] \in 1..12
    /\ s[3] \in 1..DaysInMonth(s[1], s[2])

\* the value pandas gives a date it could not parse
NaT == [year |-> 0, month |-> 0, day |-> 0]

\* datetime.fromisoformat(date_str), None where it raises
FromIsoFormat(s) ==
    IF IsDateString(s)
    THEN Some([year |-> s[1], month |-> s[2], day |-> s[3]])
    ELSE None

\* a month shift that wraps the month and forgets the carry into the year
DateOffsetMonthsNoCarry(ts, n) ==
    LET total == ts.month + n
        mm == IF total > 12 THEN total - 12
              ELSE IF total < 1 THEN total + 12 ELSE total
    IN  [year |-> ts.year, month |-> mm,
         day |-> Min2(ts.day, DaysInMonth(ts.year, mm))]

\* ts + pd.DateOffset(months = n) for -12 < n < 12: the month moves by n
\* with a carry into the year, the day is clipped to the new month's length
DateOffsetMonths(ts, n) ==
    LET total == ts.month + n
        yy == IF total > 12 THEN ts.year + 1
              ELSE IF total < 1 THEN ts.year - 1 ELSE ts.year
        mm == IF total > 12 THEN total - 12
              ELSE IF total < 1 THEN total + 12 ELSE total
    IN  [year |-> yy, month |-> mm, day |-> Min2(ts.day, DaysInMonth(yy, mm))]

----------------------------------------------------------------------------
(* patch_extractor.extract_patches_for_games: one game                     *)

WindowDays == 365

ContentsLimit == 500

\* datetime.utcnow() of the run, as a day number
NowTs == DaysFromCivil(2024, 2, 10)

\* one_year_ago = datetime.utcnow() - timedelta(days=365)
one_year_ago == UtcFromTimestamp(NowTs - WindowDays)

\* contents[:500]
Truncate(s, n) == SubSeq(s, 1, Min2(Len(s), n))

\* item.get(key, default): a news item is a dict that may lack a key
ItemGet(item, key, default) ==
    IF key \in DOMAIN item THEN item[key] ELSE default

\* the last day datetime can hold (year 9999) and the first (year 1)
TsMax == DaysFromCivil(9999, 12, 31)

TsMin == DaysFromCivil(1, 1, 1)

\* datetime.utcfromtimestamp(unix_ts) returns (it raises outside year 1..9999)
UsableTimestamp(ts) == TsMin <= ts /\ ts <= TsMax

\* the window test that also drops the item dated exactly one_year_ago
IsPatchItemStrictWindow(item) ==
    LET unix_ts == ItemGet(item, "date", 0)
    IN  /\ UsableTimestamp(unix_ts)
        /\ DtLess(one_year_ago, UtcFromTimestamp(unix_ts))
        /\ classify_patch(ItemGet(item, "title", << >>),
                          ItemGet(item, "contents", << >>)) # None

\* the item reaches patches.append: its timestamp converts, it is not older
\* than one_year_ago, and classify_patch calls it a patch
IsPatchItem(item) ==
    LET unix_ts == ItemGet(item, "date", 0)
    IN  /\ UsableTimestamp(unix_ts)
        /\ ~DtLess(UtcFromTimestamp(unix_ts), one_year_ago)
        /\ classify_patch(ItemGet(item, "title", << >>),
                          ItemGet(item, "contents", << >>)) # None

PatchEntry(appid, item) ==
    LET unix_ts == ItemGet(item, "date", 0)
        t == ItemGet(item, "title", << >>)
        c == ItemGet(item, "contents", << >>)
        cls == classify_patch(t, c)
    IN  [appid |-> appid,
         title |-> t,
         contents |-> Truncate(c, ContentsLimit),
         date |-> Strftime(UtcFromTimestamp(unix_ts)),
         unix_timestamp |-> unix_ts,
         is_major |-> cls[2],
         classification_reason |-> cls[3]]

\* the patches list built from one game's news items, in news order
PatchesOf(appid, news) ==
    LET kept == SelectSeq(news, IsPatchItem)
    IN  [k \in 1..Len(kept) |-> PatchEntry(appid, kept[k])]

\* first_major_patch_date taken over all patches, not the major ones
SummarizeMinOverAll(patches) ==
    LET all   == {patches[k] : k \in 1..Len(patches)}
        major_count == Cardinality({j \in 1..Len(patches) : patches[j].is_major})
    IN  [total_patches |-> Len(patches),
         major_patches |-> major_count,
         minor_patches |-> Len(patches) - major_count,
         has_major_patch |-> major_count > 0,
         first_major_patch_date |->
             IF major_count > 0 THEN Some(StrMin({p.date : p \in all})) ELSE None,
         last_patch_date |->
             IF all # {} THEN Some(StrMax({p.date : p \in all})) ELSE None]

\* the dates taken from the first major patch and the last patch in list
\* order, not from the minimum and the maximum
SummarizeFirstSeen(patches) ==
    LET majors == SelectSeq(patches, LAMBDA p : p.is_major)
    IN  [total_patches |-> Len(patches),
         major_patches |-> Len(majors),
         minor_patches |-> Len(patches) - Len(majors),
         has_major_patch |-> Len(majors) > 0,
         first_major_patch_date |->
             IF majors # << >> THEN Some(majors[1].date) ELSE None,
         last_patch_date |->
             IF patches # << >> THEN Some(patches[Len(patches)].date) ELSE None]

\* has_major_patch set for every game that has a patch
SummarizeHasPatch(patches) ==
    LET all   == {patches[k] : k \in 1..Len(patches)}
        major == {patches[k] : k \in {j \in 1..Len(patches) : patches[j].is_major}}
        major_count == Cardinality({j \in 1..Len(patches) : patches[j].is_major})
    IN  [total_patches |-> Len(patches),
         major_patches |-> major_count,
         minor_patches |-> Len(patches) - major_count,
         has_major_patch |-> Len(patches) > 0,
         first_major_patch_date |->
             IF major # {} THEN Some(StrMin({p.date : p \in major})) ELSE None,
         last_patch_date |->
             IF all # {} THEN Some(StrMax({p.date : p \in all})) ELSE None]

\* summary[appid] of one game
Summarize(patches) ==
    LET all   == {patches[k] : k \in 1..Len(patches)}
        major == {patches[k] : k \in {j \in 1..Len(patches) : patches[j].is_major}}
        major_count == Cardinality({j \in 1..Len(patches) : patches[j].is_major})
    IN  [total_patches |-> Len(patches),
         major_patches |-> major_count,
         minor_patches |-> Len(patches) - major_count,
         has_major_patch |-> major_count > 0,
         first_major_patch_date |->
             IF major # {} THEN Some(StrMin({p.date : p \in major})) ELSE None,
         last_patch_date |->
             IF all # {} THEN Some(StrMax({p.date : p \in all})) ELSE None]

----------------------------------------------------------------------------
(* Python dicts keyed by int or by str                                     *)

IntKey(a) == << "int", a >>

StrKey(a) == << "str", a >>

\* d.get(k)
DictGet(d, k) == IF k \in DOMAIN d THEN Some(d[k]) ELSE None

\* d[k] = v
DictSet(d, k, v) == (k :> v) @@ d

\* a or b, for values that are None or a non-empty dict
OrElse(a, b) == IF a # None THEN a ELSE b

----------------------------------------------------------------------------
(* collect_panel_for_did: helpers of build_panel                           *)

\* the lookup by str(appid) alone
extract_last_major_date_str_key(summary, appid) ==
    LET s == DictGet(summary, StrKey(appid))
    IN  IF s = None THEN None
        ELSE LET date_str == s[1].first_major_patch_date
             IN  IF date_str = None THEN None
                 ELSE FromIsoFormat(date_str[1])

extract_last_major_date(summary, appid) ==
    LET s == OrElse(DictGet(summary, StrKey(appid)),
                    DictGet(summary, IntKey(appid)))
    IN  IF s = None THEN None
        ELSE LET date_str == s[1].first_major_patch_date
             IN  IF date_str = None THEN None
                 ELSE FromIsoFormat(date_str[1])

\* owners is None, a number [num |-> x], or a string given by its
\* '-'-separated parts [parts |-> <<...>>], a part being the integer it
\* spells once commas and blanks are removed, or None when it spells none
owners_from_steamdb(steamdb_data) ==
    IF steamdb_data = None THEN None
    ELSE LET owners == steamdb_data[1].owners
         IN  IF owners = None THEN None
             ELSE IF "num" \in DOMAIN owners[1] THEN Some(Float(owners[1].num))
             ELSE LET parts == owners[1].parts
                  IN  IF Len(parts) = 2 /\ parts[1] # None /\ parts[2] # None
                      THEN Some(Frac(parts[1][1] + parts[2][1], 2))
                      ELSE None

\* pd.to_datetime(date, errors='coerce')
ToDatetime(s) ==
    IF IsDateString(s) THEN [year |-> s[1], month |-> s[2], day |-> s[3]]
    ELSE NaT

\* .dt.to_period('M').dt.to_timestamp(): the first day of the month
ToMonthStart(dt) ==
    IF dt = NaT THEN NaT ELSE [year |-> dt.year, month |-> dt.month, day |-> 1]

\* the keys of a groupby, ascending
RECURSIVE SortedDates(_)
SortedDates(S) ==
    IF S = {} THEN << >>
    ELSE LET lo == CHOOSE a \in S : \A b \in S : ~DtLess(b, a)
         IN  << lo >> \o SortedDates(S \ {lo})

RECURSIVE SumOf(_)
SumOf(xs) == IF xs = << >> THEN 0 ELSE Head(xs) + SumOf(Tail(xs))

RECURSIVE MaxOf(_)
MaxOf(xs) ==
    IF Len(xs) = 1 THEN xs[1]
    ELSE LET m == MaxOf(Tail(xs)) IN IF Head(xs) >= m THEN Head(xs) ELSE m

\* 'sum' in place of 'mean'
AggSum(xs) == Float(SumOf(xs))

\* NaN, the cell of a float column that stands for a missing value (a point
\* whose avg or peak is None); player counts are never negative
NaN == -1

\* the cells of a column that hold a number
NotNa(xs) == SelectSeq(xs, LAMBDA v : v # NaN)

\* 'mean' of a group's avg column: NaN cells are skipped, a group without a
\* number gives NaN
AggMean(xs) ==
    IF NotNa(xs) = << >> THEN Float(NaN)
    ELSE Frac(SumOf(NotNa(xs)), Len(NotNa(xs)))

\* 'max' of a group's peak column, NaN cells skipped likewise
AggMax(xs) ==
    IF NotNa(xs) = << >> THEN Float(NaN) ELSE Float(MaxOf(NotNa(xs)))

\* df.groupby('ym').agg({'avg':'mean','peak':'max'}).reset_index();
\* rows whose key is NaT belong to no group
GroupByYm(df) ==
    LET keys == SortedDates({df[k].ym : k \in 1..Len(df)} \ {NaT})
        Group(key) == SelectSeq(df, LAMBDA r : r.ym = key)
        Column(g, f) == [k \in 1..Len(g) |-> g[k][f]]
    IN  [k \in 1..Len(keys) |->
            [ym   |-> keys[k],
             avg  |-> AggMean(Column(Group(keys[k]), "avg")),
             peak |-> AggMax(Column(Group(keys[k]), "peak"))]]

\* lines 119-140: the frame built from the fetched series, its avg and
\* peak columns holding numbers and NaN
NormalizeSeries(raw) ==
    IF raw = << >> THEN << >>
    ELSE GroupByYm([k \in 1..Len(raw) |->
                      [ym   |-> ToMonthStart(ToDatetime(raw[k].date)),
                       avg  |-> raw[k].avg,
                       peak |-> raw[k].peak]])

\* a range one element short
RangeShort(a, b) == [k \in 1..(b - a - 1) |-> a + k - 1]

\* range(a, b)
Range(a, b) == [k \in 1..(b - a) |-> a + k - 1]

RelFrom == -4

RelTo == 5

\* a lookup that falls back on the latest earlier month (a forward fill)
MatchedFfill(df, row_date) ==
    LET upto == SelectSeq(df, LAMBDA r : ~DtLess(row_date, r.ym))
    IN  IF upto = << >> THEN << >> ELSE << upto[Len(upto)] >>

\* df_series[df_series['ym'] == row_date]
Matched(df, row_date) == SelectSeq(df, LAMBDA r : r.ym = row_date)

\* the earliest month in place of the latest
EarliestYm(df) ==
    CHOOSE a \in {df[k].ym : k \in 1..Len(df)} :
        \A k \in 1..Len(df) : ~DtLess(df[k].ym, a)

\* df_series['ym'].max()
LatestYm(df) ==
    CHOOSE a \in {df[k].ym : k \in 1..Len(df)} :
        \A k \in 1..Len(df) : ~DtLess(a, df[k].ym)

\* the event date itself, not truncated to its month
EventMonthKeepDay(event_dt) == event_dt

\* datetime(event_dt.year, event_dt.month, 1), None without an event
EventMonth(event_dt) ==
    IF event_dt = None THEN None
    ELSE Some([year |-> event_dt[1].year, month |-> event_dt[1].month, day |-> 1])

\* the date of the row rel of one game: lines 150-172 and 181
RowDate(event_month, df, rel) ==
    IF event_month = None
    THEN IF df = << >> THEN None
         ELSE Some(DateOffsetMonths(LatestYm(df), rel))
    ELSE Some(DateOffsetMonths(event_month[1], rel))

\* avg / peak of a row: float(matched[f].iloc[0]) or None; a NaN in the
\* column of df_panel is its null
Cell(matched, f) ==
    IF matched # << >> /\ matched[1][f] # Float(NaN)
    THEN Some(matched[1][f]) ELSE None

\* one appended row: lines 150-203
PanelRow(appid, store_data, owners_est, metacritic, treatment, event_month, df, rel) ==
    LET row_date == RowDate(event_month, df, rel)
        matched  == IF row_date = None THEN << >> ELSE Matched(df, row_date[1])
    IN  [appid |-> appid,
         name |-> IF store_data # None THEN store_data[1].name ELSE None,
         event_date |-> IF event_month = None THEN None
                        ELSE Some(Strftime(event_month[1])),
         rel_month |-> rel,
         month |-> IF row_date # None THEN Some(StrftimeYm(row_date[1])) ELSE None,
         avg_players |-> Cell(matched, "avg"),
         peak_players |-> Cell(matched, "peak"),
         owners_estimate |-> owners_est,
         metacritic_score |-> metacritic,
         treatment |-> treatment]

\* the nine rows of one game: the body of the loop over appids
PanelRows(appid, summary, store_data, sdb, df) ==
    LET owners_est == owners_from_steamdb(sdb)
        metacritic == IF store_data # None THEN store_data[1].metacritic ELSE None
        last_major == extract_last_major_date(summary, appid)
        treatment  == IF last_major = None THEN 0 ELSE 1
        event_month == EventMonth(last_major)
        rels == Range(RelFrom, RelTo)
    IN  [k \in 1..Len(rels) |->
            PanelRow(appid, store_data, owners_est, metacritic, treatment,
                     event_month, df, rels[k])]

----------------------------------------------------------------------------
(* Inputs.  News items carry a day-number date and string title and       *)
(* contents; fetched points carry a date string (or a text that is no      *)
(* date) and numeric avg and peak.                                         *)

MaxWords == 2

MaxPoints == 3

MaxGames == 2

RECURSIVE Join(_)
Join(ws) ==
    IF ws = << >> THEN << >>
    ELSE IF Len(ws) = 1 THEN ws[1]
    ELSE ws[1] \o Space \o Join(Tail(ws))

TxtMajorUpdate ==
    << "M", "a", "j", "o", "r", " ", "U", "p", "d", "a", "t", "e", " ",
       "2", ".", "0" >>

TxtHotfix == <<"H", "o", "t", "f", "i", "x", " ", "1", ".", "2", ".", "1">>

TxtBalance == <<"B", "a", "l", "a", "n", "c", "e">>

TxtPatch == <<"P", "a", "t", "c", "h">>

TxtRoadmap == <<"R", "o", "a", "d", "m", "a", "p">>

TxtOverhaul == <<"O", "v", "e", "r", "h", "a", "u", "l">>

TxtNew == <<"N", "e", "w">>

TxtMap == <<"M", "a", "p">>

TxtBug == <<"B", "u", "g">>

TxtFix == <<"F", "i", "x">>

TxtPerformance == <<"P", "e", "r", "f", "o", "r", "m", "a", "n", "c", "e">>

TxtNewGameMode ==
    << "N", "e", "w", " ", "g", "a", "m", "e", " ", "m", "o", "d", "e",
       " ", "a", "d", "d", "e", "d" >>

TxtFixedCrash ==
    << "F", "i", "x", "e", "d", " ", "a", " ", "c", "r", "a", "s", "h" >>

TxtPlans ==
    << "O", "u", "r", " ", "p", "l", "a", "n", "s", " ", "f", "o", "r",
       " ", "n", "e", "x", "t", " ", "y", "e", "a", "r" >>

TxtStability == <<"s", "t", "a", "b", "i", "l", "i", "t", "y">>

TxtMassive == <<"m", "a", "s", "s", "i", "v", "e">>

\* titles: up to MaxWords of these phrases, joined by blanks
TitlePhrases ==
    { TxtMajorUpdate, TxtHotfix, TxtBalance, TxtPatch, TxtRoadmap,
      TxtOverhaul, TxtNew, TxtMap, TxtBug, TxtFix, TxtPerformance }

Titles == {Join(ws) : ws \in SeqsUpTo(TitlePhrases, MaxWords)}

Bodies ==
    { << >>, TxtNewGameMode, TxtFixedCrash, TxtPlans, TxtStability, TxtMassive }

\* a 'date' cell that is no date, such as the table row "Last 30 Days"
BadDate == << >>

Point(date, avg, peak) == [date |-> date, avg |-> avg, peak |-> peak]

PtJan05 == Point(<< 2024, 1, 5 >>, 10, 20)

PtJan20 == Point(<< 2024, 1, 20 >>, 20, 15)

PtDec01 == Point(<< 2023, 12, 1 >>, 7, 9)

PtNov30 == Point(<< 2023, 11, 30 >>, 12, 30)

PtBad == Point(BadDate, 5, 50)

RawPoints == { PtJan05, PtJan20, PtDec01, PtNov30, PtBad }

\* results of fetch_monthly_series used in the panel runs
SampleSeries ==
    { << >>,
      << PtBad >>,
      << Point(<< 2024, 2, 1 >>, 30, 40), PtNov30, PtJan20, PtJan05 >>,
      << PtBad, Point(<< 2023, 10, 1 >>, 8, 12), Point(<< 2023, 9, 1 >>, 6, 11) >> }

NewsItem(ts, t, c) == [date |-> ts, title |-> t, contents |-> c]

TsOld == DaysFromCivil(2022, 12, 25)

TsNov == DaysFromCivil(2023, 11, 17)

TsJan == DaysFromCivil(2024, 1, 5)

\* results of fetch_news_for_app used in the panel runs
SampleFeeds ==
    { << >>,
      << NewsItem(TsNov, TxtHotfix, TxtFixedCrash) >>,
      << NewsItem(TsJan, TxtMajorUpdate, TxtNewGameMode),
         NewsItem(TsNov, TxtMajorUpdate, << >>) >>,
      << NewsItem(TsOld, TxtMajorUpdate, << >>),
         NewsItem(TsJan, TxtRoadmap, TxtPlans) >> }

AppIds == { 570, 730 }

\* what store.fetch_app(appid) can give build_panel: None (the call raised
\* or the answer was unusable) or the normalised record
StoreResults(appid) ==
    { None,
      Some([name |-> Some(<< "app", appid >>), metacritic |-> Some(90)]) }

\* what steamdb.fetch_app(appid) can give build_panel
SteamDBResults(appid) ==
    { None,
      Some([owners |-> None]),
      Some([owners |-> Some([parts |-> << Some(1000000), Some(2000000) >>])]) }

----------------------------------------------------------------------------
(* classify_patch applied to one (title, contents)                         *)

classifyVars == << title, contents, classification >>

normalizeVars == << series, df_series >>

panelVars == << appids, ex, patch_summary, frames, rows >>

extractVars ==
    << games, responses, summaries, all_patches, rerun, rerun_summary, rerun_patches >>

IdleExtract ==
    /\ games = << >> /\ responses = << >> /\ summaries = << >>
    /\ all_patches = << >> /\ rerun = 0
    /\ rerun_summary = << >> /\ rerun_patches = << >>

cacheVars == << cache, clock, elapses, got, last_set >>

IdleCache ==
    /\ cache = {} /\ clock = 0 /\ elapses = 0 /\ got = << >> /\ last_set = << >>

clientVars ==
    << min_interval, max_403_retries, last_call_age, request_age,
       backoff, tries, user_agent, sent, outcome, html >>

IdleClient ==
    /\ min_interval = 0 /\ max_403_retries = 0 /\ last_call_age = 0
    /\ request_age = << >> /\ backoff = 0 /\ tries = 0 /\ user_agent = ""
    /\ sent = << >> /\ outcome = << >> /\ html = << >>

trafficVars == << build_appids, game, cached, requests >>

IdleTraffic ==
    /\ build_appids = << >> /\ game = 0 /\ cached = {} /\ requests = << >>

controlVars == << control_series, control_rows >>

IdleControl == control_series = << >> /\ control_rows = << >>

fetchVars == << use_cache, entries, last_fetch >>

IdleFetch == use_cache = TRUE /\ entries = << >> /\ last_fetch = << >>

sharedVars ==
    << keeps_lock, shared_row, caller_pc, caller_read, caller_op,
       caller_result, lost >>

IdleShared ==
    /\ keeps_lock = FALSE /\ shared_row = << >> /\ caller_pc = << >>
    /\ caller_read = << >> /\ caller_op = << >> /\ caller_result = << >>
    /\ lost = FALSE

batchVars ==
    << batch_appids, batch_ex, batch_summary, batch_fetched, batch_rows >>

IdleBatch ==
    /\ batch_appids = << >> /\ batch_ex = 0 /\ batch_summary = << >>
    /\ batch_fetched = << >> /\ batch_rows = << >>

IdleClassify == title = << >> /\ contents = << >> /\ classification = None

IdleNormalize == series = << >> /\ df_series = << >>

IdlePanel ==
    /\ appids = << >> /\ ex = 0 /\ patch_summary = << >>
    /\ frames = << >> /\ rows = << >>

InitClassify ==
    /\ pc = "classify"
    /\ title \in Titles
    /\ contents \in Bodies
    /\ classification = None
    /\ IdleNormalize /\ IdlePanel /\ IdleExtract /\ IdleCache /\ IdleClient /\ IdleTraffic /\ IdleControl /\ IdleFetch /\ IdleShared /\ IdleBatch

Classify ==
    /\ pc = "classify"
    /\ classification' = classify_patch(title, contents)
    /\ pc' = "classified"
    /\ UNCHANGED << title, contents, normalizeVars, panelVars, extractVars,
                    cacheVars, clientVars, trafficVars,
                    controlVars, fetchVars, sharedVars,
                    batchVars >>

NextClassify == Classify

SpecClassify == InitClassify /\ [][NextClassify]_vars

----------------------------------------------------------------------------
(* the monthly normalisation applied to one fetched series                 *)

InitNormalize ==
    /\ pc = "normalize"
    /\ series \in SeqsUpTo(RawPoints, MaxPoints)
    /\ df_series = << >>
    /\ IdleClassify /\ IdlePanel /\ IdleExtract /\ IdleCache /\ IdleClient /\ IdleTraffic /\ IdleControl /\ IdleFetch /\ IdleShared /\ IdleBatch

Normalize ==
    /\ pc = "normalize"
    /\ df_series' = NormalizeSeries(series)
    /\ pc' = "normalized"
    /\ UNCHANGED << series, classifyVars, panelVars, extractVars, cacheVars,
                    clientVars, trafficVars, controlVars,
                    fetchVars, sharedVars, batchVars >>

NextNormalize == Normalize

SpecNormalize == InitNormalize /\ [][NextNormalize]_vars

----------------------------------------------------------------------------
(* build_panel                                                             *)

Init ==
    /\ pc = "extract"
    /\ appids \in SeqsUpTo(AppIds, MaxGames)
    /\ ex = 0
    /\ patch_summary = << >>
    /\ frames = << >>
    /\ rows = << >>
    /\ IdleClassify /\ IdleNormalize /\ IdleExtract /\ IdleCache /\ IdleClient /\ IdleTraffic /\ IdleControl /\ IdleFetch /\ IdleShared /\ IdleBatch

\* extract_patches_for_games, one iteration of its loop over appids
ExtractPatches ==
    /\ pc = "extract"
    /\ ex < Len(appids)
    /\ \E news \in SampleFeeds :
          LET appid == appids[ex + 1]
          IN  patch_summary' =
                  DictSet(patch_summary, IntKey(appid),
                          Summarize(PatchesOf(appid, news)))
    /\ ex' = ex + 1
    /\ UNCHANGED << pc, appids, frames, rows, classifyVars, normalizeVars,
                    extractVars, cacheVars, clientVars,
                    trafficVars, controlVars, fetchVars,
                    sharedVars, batchVars >>

\* extract_patches_for_games returns; build_panel keeps its 'summary'
ExtractReturn ==
    /\ pc = "extract"
    /\ ex = Len(appids)
    /\ pc' = "panel"
    /\ UNCHANGED << appids, ex, patch_summary, frames, rows,
                    classifyVars, normalizeVars, extractVars,
                    cacheVars, clientVars, trafficVars,
                    controlVars, fetchVars, sharedVars,
                    batchVars >>

\* one iteration of build_panel's loop over appids
ProcessApp ==
    /\ pc = "panel"
    /\ Len(frames) < Len(appids)
    /\ LET appid == appids[Len(frames) + 1]
       IN  \E store_data \in StoreResults(appid), sdb \in SteamDBResults(appid),
              fetched \in SampleSeries :
              LET df == NormalizeSeries(fetched)
              IN  /\ frames' = Append(frames, df)
                  /\ rows' = rows \o PanelRows(appid, patch_summary,
                                               store_data, sdb, df)
    /\ UNCHANGED << pc, appids, ex, patch_summary, classifyVars, normalizeVars,
                    extractVars, cacheVars, clientVars,
                    trafficVars, controlVars, fetchVars,
                    sharedVars, batchVars >>

\* the panel is written and returned
WritePanel ==
    /\ pc = "panel"
    /\ Len(frames) = Len(appids)
    /\ pc' = "done"
    /\ UNCHANGED << appids, ex, patch_summary, frames, rows,
                    classifyVars, normalizeVars, extractVars,
                    cacheVars, clientVars, trafficVars,
                    controlVars, fetchVars, sharedVars,
                    batchVars >>

Next == ExtractPatches \/ ExtractReturn \/ ProcessApp \/ WritePanel

Spec == Init /\ [][Next]_vars

----------------------------------------------------------------------------
(* Properties of build_panel (specification Spec)                          *)

\* the row of the g-th processed game with relative month r, and its block
GameRow(g, r) == rows[9 * (g - 1) + r + 5]

Rels == -4..4

Games == 1..Len(frames)

SummaryOf(g) == patch_summary[IntKey(appids[g])]

IsTreated(g) == SummaryOf(g).first_major_patch_date # None

\* months since year 0 of a "YYYY-MM" string
MonthIndex(ym) == 12 * ym[1] + ym[2] - 1

\* C1: build_panel emits exactly nine rows per element of appids, with
\* rel_month running through -4..4 once each in ascending order inside a
\* game, and the nine-row blocks follow the order of the input list.
C1_NineRowsPerGameInOrder ==
    /\ Len(rows) = 9 * Len(frames)
    /\ Len(frames) <= Len(appids)
    /\ pc = "done" => Len(rows) = 9 * Len(appids)
    /\ \A k \in 1..Len(rows) :
          /\ rows[k].appid = appids[(k - 1) \div 9 + 1]
          /\ rows[k].rel_month = ((k - 1) % 9) - 4

C1_Witness ==
    /\ pc = "done"
    /\ Len(appids) = 2
    /\ appids[1] # appids[2]
    /\ Len(rows) = 18
    /\ rows[10].appid = appids[2]

\* C2: in every row treatment = 1 exactly when event_date is non-null; the
\* nine rows of a game carry one treatment and one event_date; and
\* treatment = 1 exactly when the game's summary has a
\* first_major_patch_date.
C2_TreatmentIffEventDate ==
    \A g \in Games : \A r \in Rels :
        /\ GameRow(g, r).treatment \in {0, 1}
        /\ GameRow(g, r).treatment = 1 <=> GameRow(g, r).event_date # None
        /\ GameRow(g, r).treatment = GameRow(g, -4).treatment
        /\ GameRow(g, r).event_date = GameRow(g, -4).event_date
        /\ GameRow(g, r).treatment = 1 <=> IsTreated(g)

C2_Witness ==
    /\ Len(frames) = 2
    /\ IsTreated(1) /\ GameRow(1, 4).treatment = 1
    /\ ~IsTreated(2) /\ GameRow(2, 4).treatment = 0
    /\ SummaryOf(2).total_patches > 0

C4_ControlAnchor ==
    \A g \in Games :
        ~IsTreated(g) =>
            IF frames[g] = << >>
            THEN \A r \in Rels :
                    /\ GameRow(g, r).month = None
                    /\ GameRow(g, r).avg_players = None
                    /\ GameRow(g, r).peak_players = None
                    /\ GameRow(g, r).treatment = 0
            ELSE \E k \in 1..Len(frames[g]) :
                    /\ GameRow(g, 0).month = Some(StrftimeYm(frames[g][k].ym))
                    /\ \A j \in 1..Len(frames[g]) :
                          ~DtLess(frames[g][k].ym, frames[g][j].ym)

C4_Witness ==
    /\ Len(frames) = 2
    /\ ~IsTreated(1) /\ ~IsTreated(2)
    /\ Len(frames[1]) = 3 /\ Len(frames[2]) = 2
    /\ GameRow(1, 0).month = Some(<< 2024, 2 >>)
    /\ GameRow(2, 0).month = Some(<< 2023, 10 >>)

C4_WitnessNoAnchor ==
    \E g \in Games :
        /\ ~IsTreated(g)
        /\ frames[g] = << >>
        /\ GameRow(g, 0).month = None

\* C5: for every game with an anchor and every rel_month r the row's month
\* is the anchor month shifted by r calendar months, also across a year
\* boundary; month is null exactly when the game has no anchor (no
\* first_major_patch_date and an empty series).
C5_MonthIsAnchorPlusRel ==
    \A g \in Games :
        LET anchor == GameRow(g, 0).month
        IN  /\ anchor = None <=> (~IsTreated(g) /\ frames[g] = << >>)
            /\ \A r \in Rels :
                  /\ GameRow(g, r).month = None <=> anchor = None
                  /\ anchor # None =>
                        /\ GameRow(g, r).month[1][2] \in 1..12
                        /\ MonthIndex(GameRow(g, r).month[1])
                              = MonthIndex(anchor[1]) + r

C5_Witness ==
    \E g \in Games :
        /\ GameRow(g, 0).month = Some(<< 2023, 11 >>)
        /\ GameRow(g, 4).month = Some(<< 2024, 3 >>)
        /\ GameRow(g, -4).month = Some(<< 2023, 7 >>)

C5_WitnessBackward ==
    \E g \in Games :
        /\ GameRow(g, 0).month = Some(<< 2024, 2 >>)
        /\ GameRow(g, -2).month = Some(<< 2023, 12 >>)
        /\ GameRow(g, -4).month = Some(<< 2023, 10 >>)

----------------------------------------------------------------------------
(* Properties of the monthly normalisation (specification SpecNormalize)   *)

\* the raw points whose date is a date of month ym (a Timestamp)
RawOfMonth(ym) ==
    SelectSeq(series, LAMBDA p :
        Len(p.date) = 3 /\ p.date[1] = ym.year /\ p.date[2] = ym.month)

RawMonths ==
    {<< series[k].date[1], series[k].date[2] >> :
        k \in {j \in 1..Len(series) : Len(series[j].date) = 3}}

----------------------------------------------------------------------------
(* Properties of classify_patch (specification SpecClassify)               *)

HasPatchKeyword == AnyIn(patch_keywords, Combined(title, contents))

HasMajorIndicator == AnyIn(major_indicators, Combined(title, contents))

HasMinorIndicator == AnyIn(minor_indicators, Combined(title, contents))

HasBugFixOrHotfix ==
    \/ Contains(Combined(title, contents), kw_bug_fix)
    \/ Contains(Combined(title, contents), kw_hotfix)

\* C8: for a text with a patch keyword classify_patch decides in this
\* order: minor indicator and no major indicator -> MINOR, minor_keywords;
\* else major indicator -> MAJOR, major_keywords; else "bug fix" or
\* "hotfix" in the text -> MINOR, default_minor; else MAJOR, default_major.
C8_TieBreakOrder ==
    (pc = "classified" /\ HasPatchKeyword) =>
        classification =
            IF HasMinorIndicator /\ ~HasMajorIndicator
                THEN << TRUE, FALSE, "minor_keywords" >>
            ELSE IF HasMajorIndicator
                THEN << TRUE, TRUE, "major_keywords" >>
            ELSE IF HasBugFixOrHotfix
                THEN << TRUE, FALSE, "default_minor" >>
            ELSE << TRUE, TRUE, "default_major" >>

C8_Witness ==
    /\ pc = "classified"
    /\ HasPatchKeyword /\ HasMajorIndicator /\ HasMinorIndicator
    /\ classification = << TRUE, TRUE, "major_keywords" >>

C8_WitnessDefault ==
    /\ pc = "classified"
    /\ HasPatchKeyword /\ ~HasMajorIndicator /\ ~HasMinorIndicator
    /\ classification = << TRUE, TRUE, "default_major" >>

\* C9: classify_patch returns none exactly when none of the fourteen patch
\* keywords occurs in the text, also when the text has a major or a minor
\* indicator; every text with a patch keyword gets a classification with
\* is_patch = true.
C9_NoneIffNoPatchKeyword ==
    pc = "classified" =>
        /\ Len(patch_keywords) = 14
        /\ classification = None <=> ~HasPatchKeyword
        /\ classification # None => classification[1] = TRUE

C9_Witness ==
    /\ pc = "classified"
    /\ HasMajorIndicator
    /\ ~HasPatchKeyword
    /\ classification = None

C9_WitnessMinor ==
    /\ pc = "classified"
    /\ HasMinorIndicator
    /\ ~HasPatchKeyword
    /\ classification = None

\* C10: classify("Balance Patch", "") is MINOR, "balance" being a minor
\* indicator.
C10_BalancePatchIsMinor ==
    (pc = "classified" /\ title = Join(<< TxtBalance, TxtPatch >>)
                       /\ contents = << >>) =>
        /\ classification # None
        /\ classification[2] = FALSE

\* C30: classify_patch never returns the reason default_minor: a text that
\* reaches the default branch (no major and no minor indicator) has neither
\* "bug fix" nor "hotfix", so it is MAJOR with reason default_major, and
\* every MINOR result has reason minor_keywords.
C30_DefaultMinorUnreachable ==
    (pc = "classified" /\ classification # None) =>
        /\ classification[3] # "default_minor"
        /\ (~HasMajorIndicator /\ ~HasMinorIndicator) =>
              /\ ~HasBugFixOrHotfix
              /\ classification = << TRUE, TRUE, "default_major" >>
        /\ classification[2] = FALSE => classification[3] = "minor_keywords"

C30_Witness ==
    /\ pc = "classified"
    /\ HasBugFixOrHotfix /\ ~HasMajorIndicator
    /\ classification = << TRUE, FALSE, "minor_keywords" >>

C30_WitnessBugFix ==
    /\ pc = "classified"
    /\ Contains(Combined(title, contents), kw_bug_fix)
    /\ ~Contains(Combined(title, contents), kw_hotfix)
    /\ classification = << TRUE, FALSE, "minor_keywords" >>

----------------------------------------------------------------------------
(* patch_extractor.extract_patches_for_games, run twice over the same news *)

MaxItems == 3

\* the news request of one game: what requests.get and raise_for_status
\* make of it, and the newsitems of the body that came with it
Response(status, newsitems) == [status |-> status, newsitems |-> newsitems]

\* the newsitems of the body whatever the status of the response
fetch_news_for_app_ignore_status(resp) == resp.newsitems

\* fetch_news_for_app: the newsitems of a good response, [] when the request
\* or raise_for_status or the JSON decoding raised
fetch_news_for_app(resp) ==
    IF resp.status = "ok" THEN resp.newsitems ELSE << >>

\* news items around the edge of the window, of each class, and without a
\* timestamp that utcfromtimestamp can convert
ItMajorEdge == NewsItem(NowTs - WindowDays, TxtMajorUpdate, << >>)

ItMajorBefore == NewsItem(NowTs - WindowDays - 1, TxtMajorUpdate, TxtNewGameMode)

ItMajorJan == NewsItem(TsJan, TxtMajorUpdate, TxtNewGameMode)

ItHotfixNov == NewsItem(TsNov, TxtHotfix, TxtFixedCrash)

ItRoadmapJan == NewsItem(TsJan, TxtRoadmap, TxtPlans)

ItNoDate == [title |-> TxtMajorUpdate, contents |-> TxtNewGameMode]

ItOverflow == NewsItem(TsMax + 1, TxtMajorUpdate, << >>)

NewsItems ==
    { ItMajorEdge, ItMajorBefore, ItMajorJan, ItHotfixNov, ItRoadmapJan,
      ItNoDate, ItOverflow }

\* the responses a news request can get when at most n items may come back
Responses(n) ==
    {Response("ok", s) : s \in SeqsUpTo(NewsItems, n)}
        \cup {Response("timeout", << >>)}
        \cup {Response("http_error", s) : s \in SeqsUpTo({ItMajorJan}, Min2(n, 1))}

\* the lists of appids extraction is called with
ExtractCalls == { << 570 >>, << 570, 730 >>, << 730, 730 >> }

\* lines 167-198 for one item: nothing, or the patch_entry it appends
ItemPatches(appid, item) ==
    IF IsPatchItem(item) THEN << PatchEntry(appid, item) >> ELSE << >>

\* ItemPatches of every game and item of the runs, evaluated once
ItemPatchesOf ==
    [appid \in {570, 730} |-> [item \in NewsItems |-> ItemPatches(appid, item)]]

\* patches of one game: the entries of its items, in news order
RECURSIVE Patches(_, _)
Patches(appid, news) ==
    IF news = << >> THEN << >>
    ELSE ItemPatchesOf[appid][Head(news)] \o Patches(appid, Tail(news))

RECURSIVE TotalItems(_)
TotalItems(resps) ==
    IF resps = << >> THEN 0
    ELSE Len(Head(resps).newsitems) + TotalItems(Tail(resps))

\* the orders in which the items of s can come
PermsOf(s) ==
    LET n == Len(s)
        bij == {f \in [1..n -> 1..n] : \A i, j \in 1..n : f[i] = f[j] => i = j}
    IN  {[k \in 1..n |-> s[f[k]]] : f \in bij}

InitExtract ==
    /\ pc = "extracting"
    /\ games \in ExtractCalls
    /\ responses = << >>
    /\ summaries = << >>
    /\ all_patches = << >>
    /\ rerun = 0
    /\ rerun_summary = << >>
    /\ rerun_patches = << >>
    /\ IdleClassify /\ IdleNormalize /\ IdlePanel /\ IdleCache /\ IdleClient /\ IdleTraffic /\ IdleControl /\ IdleFetch /\ IdleShared /\ IdleBatch

\* one iteration of the loop over appids: fetch, filter, classify, summarize
ExtractGame ==
    /\ pc = "extracting"
    /\ Len(responses) < Len(games)
    /\ \E resp \in Responses(MaxItems - TotalItems(responses)) :
          LET appid == games[Len(responses) + 1]
              patches == Patches(appid, fetch_news_for_app(resp))
          IN  /\ responses' = Append(responses, resp)
              /\ all_patches' = all_patches \o patches
              /\ summaries' = DictSet(summaries, IntKey(appid), Summarize(patches))
    /\ UNCHANGED << pc, games, rerun, rerun_summary, rerun_patches,
                    classifyVars, normalizeVars, panelVars,
                    cacheVars, clientVars, trafficVars,
                    controlVars, fetchVars, sharedVars,
                    batchVars >>

\* the loop is over: the output is written and returned
ExtractDone ==
    /\ pc = "extracting"
    /\ Len(responses) = Len(games)
    /\ pc' = "extracted"
    /\ UNCHANGED << extractVars, classifyVars, normalizeVars, panelVars,
                    cacheVars, clientVars, trafficVars,
                    controlVars, fetchVars, sharedVars,
                    batchVars >>

\* the second run, one iteration: the request of this game gets the response
\* it got in the first run, its items in any order
ExtractGameAgain ==
    /\ pc = "extracted"
    /\ rerun < Len(games)
    /\ \E items \in PermsOf(responses[rerun + 1].newsitems) :
          LET appid == games[rerun + 1]
              resp == Response(responses[rerun + 1].status, items)
              patches == Patches(appid, fetch_news_for_app(resp))
          IN  /\ rerun_patches' = rerun_patches \o patches
              /\ rerun_summary' =
                     DictSet(rerun_summary, IntKey(appid), Summarize(patches))
    /\ rerun' = rerun + 1
    /\ UNCHANGED << pc, games, responses, summaries, all_patches,
                    classifyVars, normalizeVars, panelVars,
                    cacheVars, clientVars, trafficVars,
                    controlVars, fetchVars, sharedVars,
                    batchVars >>

ExtractAgainDone ==
    /\ pc = "extracted"
    /\ rerun = Len(games)
    /\ pc' = "re_extracted"
    /\ UNCHANGED << extractVars, classifyVars, normalizeVars, panelVars,
                    cacheVars, clientVars, trafficVars,
                    controlVars, fetchVars, sharedVars,
                    batchVars >>

NextExtract ==
    ExtractGame \/ ExtractDone \/ ExtractGameAgain \/ ExtractAgainDone

SpecExtract == InitExtract /\ [][NextExtract]_vars

----------------------------------------------------------------------------
(* Properties of extract_patches_for_games (specification SpecExtract)     *)

\* the news items the loop of game number g iterates over
NewsOf(g) == fetch_news_for_app(responses[g])

\* the item's timestamp converts and is not older than now - 365 days, and
\* the classifier returns a classification; a missing 'date' reads as 0
Qualifies ==
    [item \in NewsItems |->
        LET ts == IF "date" \in DOMAIN item THEN item.date ELSE 0
        IN  /\ TsMin <= ts /\ ts <= TsMax
            /\ ts >= NowTs - WindowDays
            /\ classify_patch(item.title, item.contents) # None]

QualCount(news) == Cardinality({k \in 1..Len(news) : Qualifies[news[k]]})

RECURSIVE QualTotal(_)
QualTotal(g) == IF g = 0 THEN 0 ELSE QualCount(NewsOf(g)) + QualTotal(g - 1)

\* no later iteration handled so far is for the same appid
LastOccurrence(g) == \A h \in (g + 1)..Len(responses) : games[h] # games[g]

\* the appid of game number g is in the list once
Once(g) == \A h \in 1..Len(games) : games[h] = games[g] => h = g

SummaryAt(g) == summaries[IntKey(games[g])]

\* the item stands behind the record
RecordOf(appid, item, rec) ==
    /\ rec.appid = appid
    /\ "date" \in DOMAIN item /\ rec.unix_timestamp = item.date
    /\ rec.title = item.title

ZeroSummary ==
    [total_patches |-> 0, major_patches |-> 0, minor_patches |-> 0,
     has_major_patch |-> FALSE,
     first_major_patch_date |-> None, last_patch_date |-> None]

\* C11: a news item produces a PatchRecord and is counted in its game's
\* summary exactly when its timestamp is not older than now - 365 days and
\* the classifier returns a classification; an item that is older, has no
\* usable timestamp, or is classified none is neither stored nor counted.
C11_StoredIffInWindowAndClassified ==
    /\ Len(all_patches) = QualTotal(Len(responses))
    /\ \A g \in 1..Len(responses) : \A k \in 1..Len(NewsOf(g)) :
          Qualifies[NewsOf(g)[k]] =>
              \E j \in 1..Len(all_patches) :
                  RecordOf(games[g], NewsOf(g)[k], all_patches[j])
    /\ \A j \in 1..Len(all_patches) :
          \E g \in 1..Len(responses) : \E k \in 1..Len(NewsOf(g)) :
              /\ Qualifies[NewsOf(g)[k]]
              /\ RecordOf(games[g], NewsOf(g)[k], all_patches[j])
    /\ \A g \in 1..Len(responses) :
          LastOccurrence(g) => SummaryAt(g).total_patches = QualCount(NewsOf(g))

\* the item dated exactly now - 365 days is stored; the item one day older
\* and the item classified none are not
C11_Witness ==
    /\ games = << 570 >>
    /\ Len(responses) = 1
    /\ responses[1] = Response("ok", << ItMajorBefore, ItMajorEdge, ItRoadmapJan >>)
    /\ Len(all_patches) = 1
    /\ all_patches[1].unix_timestamp = NowTs - WindowDays
    /\ SummaryAt(1).total_patches = 1

\* the items without a usable timestamp are dropped, the hotfix is stored
C11_WitnessNoTimestamp ==
    /\ games = << 570 >>
    /\ Len(responses) = 1
    /\ responses[1] = Response("ok", << ItOverflow, ItNoDate, ItHotfixNov >>)
    /\ Len(all_patches) = 1
    /\ ~all_patches[1].is_major
    /\ SummaryAt(1).total_patches = 1

\* the PatchRecords of a game and the major ones among them
RecordsOfGame(g) ==
    {all_patches[j] : j \in {i \in 1..Len(all_patches) : all_patches[i].appid = games[g]}}

MajorRecordsOfGame(g) == {r \in RecordsOfGame(g) : r.is_major}

\* d is None when recs is empty, else the least (dir = -1) or greatest
\* (dir = 1) date of recs
IsExtremeDate(d, recs, dir) ==
    IF recs = {} THEN d = None
    ELSE /\ d # None
         /\ d[1] \in {r.date : r \in recs}
         /\ \A r \in recs :
               IF dir < 0 THEN ~StrLess(r.date, d[1]) ELSE ~StrLess(d[1], r.date)

C12_WitnessMinorOnly ==
    /\ games = << 570 >>
    /\ Len(responses) = 1
    /\ responses[1] = Response("ok", << ItHotfixNov >>)
    /\ SummaryAt(1).first_major_patch_date = None
    /\ SummaryAt(1).last_patch_date = Some(<< 2023, 11, 17 >>)

Failed(g) == responses[g].status # "ok"

\* C13: a failed news fetch does not abort the batch: the game gets the
\* zero-activity summary, as a game with no news does, no record is stored
\* for it, and every later game is still processed and gets its summary.
C13_FailedFetchGivesZeroSummary ==
    /\ \A g \in 1..Len(responses) :
          (LastOccurrence(g) /\ (Failed(g) \/ responses[g].newsitems = << >>))
              => SummaryAt(g) = ZeroSummary
    /\ \A g \in 1..Len(responses) :
          (Failed(g) /\ Once(g)) => RecordsOfGame(g) = {}
    /\ \A g \in 1..Len(responses) : \A h \in (g + 1)..Len(responses) :
          (Failed(g) /\ LastOccurrence(h)) =>
              SummaryAt(h).total_patches = QualCount(NewsOf(h))
    /\ pc # "extracting" =>
          /\ Len(responses) = Len(games)
          /\ \A g \in 1..Len(games) : IntKey(games[g]) \in DOMAIN summaries

\* the first game's request failed with a body that held a patch, the
\* second game's request worked: zero summary, then a real one
C13_Witness ==
    /\ pc = "extracted"
    /\ games = << 570, 730 >>
    /\ responses[1] = Response("http_error", << ItMajorJan >>)
    /\ summaries[IntKey(570)] = ZeroSummary
    /\ summaries[IntKey(730)].total_patches = 2
    /\ Len(all_patches) = 2

C13_WitnessTimeout ==
    /\ pc = "extracted"
    /\ games = << 570, 730 >>
    /\ responses[1].status = "timeout"
    /\ responses[2].status = "timeout"
    /\ summaries[IntKey(570)] = ZeroSummary
    /\ summaries[IntKey(730)] = ZeroSummary

----------------------------------------------------------------------------
(* scraper.cache.SteamCache                                                *)

ttl_seconds == 604800

MaxElapses == 2

\* json.dumps writes every key of a dict as a string
JsonKey(k) == IF k[1] = "int" THEN StrKey(k[2]) ELSE k

\* json.dumps(data): the text, given by the value a reader finds in it
JsonDumps(data) ==
    << "json",
       [k \in {JsonKey(j) : j \in DOMAIN data} |->
           data[CHOOSE j \in DOMAIN data : JsonKey(j) = k]] >>

\* json.loads(data_str)
JsonLoads(data_str) == data_str[2]

\* the dicts the scrapers store: a record of the fields they normalise
Payload(appid, owners) ==
    (StrKey("appid") :> appid) @@ (StrKey("owners") :> owners)

Payloads == { Payload(570, None), Payload(570, Some("1,000,000")) }

\* the (endpoint, appid) pairs of the calls
CacheKeys ==
    { << "store_appdetails", 570 >>, << "store_appdetails", 730 >>,
      << "steamdb_app", 570 >> }

Row(endpoint, appid, data, timestamp) ==
    [endpoint |-> endpoint, appid |-> appid, data |-> data, timestamp |-> timestamp]

\* WHERE endpoint = ? AND appid = ?
RowsOf(table, endpoint, appid) ==
    {r \in table : r.endpoint = endpoint /\ r.appid = appid}

\* INSERT without OR REPLACE on a table without the primary key
InsertPlain(table, row) == table \cup {row}

\* INSERT OR REPLACE under PRIMARY KEY (endpoint, appid)
InsertOrReplace(table, row) ==
    (table \ RowsOf(table, row.endpoint, row.appid)) \cup {row}

\* the expiry test with >= in place of >
IsExpiredAtTtl(now, ts) == now - ts >= ttl_seconds

\* time.time() - ts > self.ttl_seconds
IsExpired(now, ts) == now - ts > ttl_seconds

\* get_stats(): total and the count of every endpoint that has rows
get_stats(table) ==
    [total |-> Cardinality(table),
     by_endpoint |->
         [e \in {r.endpoint : r \in table} |->
             Cardinality({r \in table : r.endpoint = e})]]

\* what a call returned, with the time of the call and the table before it
Call(op, key, result, at, before) ==
    [op |-> op, key |-> key, result |-> result, at |-> at, before |-> before]

InitCache ==
    /\ pc = "cache"
    /\ cache = {}
    /\ clock = 0
    /\ elapses = 0
    /\ got = Call("none", << >>, None, 0, {})
    /\ last_set = [k \in CacheKeys |-> None]
    /\ IdleClassify /\ IdleNormalize /\ IdlePanel /\ IdleExtract /\ IdleClient /\ IdleTraffic /\ IdleControl /\ IdleFetch /\ IdleShared /\ IdleBatch

\* SteamCache.set
CacheSet ==
    /\ pc = "cache"
    /\ \E k \in CacheKeys, data \in Payloads :
          /\ cache' = InsertOrReplace(cache, Row(k[1], k[2], JsonDumps(data), clock))
          /\ last_set' =
                 [last_set EXCEPT ![k] =
                     Some([data |-> data, at |-> clock,
                           replaced |-> RowsOf(cache, k[1], k[2]) # {}])]
          /\ got' = Call("set", k, None, clock, cache)
    /\ UNCHANGED << pc, clock, elapses,
                    classifyVars, normalizeVars, panelVars, extractVars,
                    clientVars, trafficVars, controlVars,
                    fetchVars, sharedVars, batchVars >>

\* SteamCache.get
CacheGet ==
    /\ pc = "cache"
    /\ \E k \in CacheKeys :
          LET found == RowsOf(cache, k[1], k[2])
          IN  IF found = {}
              THEN /\ got' = Call("get", k, None, clock, cache)
                   /\ cache' = cache
              ELSE LET row == CHOOSE r \in found : TRUE
                   IN  IF IsExpired(clock, row.timestamp)
                       THEN /\ cache' = cache \ RowsOf(cache, k[1], k[2])
                            /\ got' = Call("get", k, None, clock, cache)
                       ELSE /\ cache' = cache
                            /\ got' = Call("get", k, Some(JsonLoads(row.data)),
                                           clock, cache)
    /\ UNCHANGED << pc, clock, elapses, last_set,
                    classifyVars, normalizeVars, panelVars, extractVars,
                    clientVars, trafficVars, controlVars,
                    fetchVars, sharedVars, batchVars >>

\* SteamCache.clear
CacheClear ==
    /\ pc = "cache"
    /\ cache' = {}
    /\ last_set' = [k \in CacheKeys |-> None]
    /\ got' = Call("clear", << >>, None, clock, cache)
    /\ UNCHANGED << pc, clock, elapses,
                    classifyVars, normalizeVars, panelVars, extractVars,
                    clientVars, trafficVars, controlVars,
                    fetchVars, sharedVars, batchVars >>

\* SteamCache.get_stats
CacheStats ==
    /\ pc = "cache"
    /\ got' = Call("get_stats", << >>, Some(get_stats(cache)), clock, cache)
    /\ UNCHANGED << pc, cache, clock, elapses, last_set,
                    classifyVars, normalizeVars, panelVars, extractVars,
                    clientVars, trafficVars, controlVars,
                    fetchVars, sharedVars, batchVars >>

\* time passes between two calls: a second, or a whole ttl
Elapse ==
    /\ pc = "cache"
    /\ elapses < MaxElapses
    /\ \E d \in {1, ttl_seconds} : clock' = clock + d
    /\ elapses' = elapses + 1
    /\ UNCHANGED << pc, cache, got, last_set,
                    classifyVars, normalizeVars, panelVars, extractVars,
                    clientVars, trafficVars, controlVars,
                    fetchVars, sharedVars, batchVars >>

NextCache == CacheSet \/ CacheGet \/ CacheClear \/ CacheStats \/ Elapse

SpecCache == InitCache /\ [][NextCache]_vars

----------------------------------------------------------------------------
(* Properties of SteamCache (specification SpecCache)                      *)

SameKey(r, s) == r.endpoint = s.endpoint /\ r.appid = s.appid

\* C15: after any sequence of set, get and clear the cache holds at most
\* one entry per (endpoint, entity_id), and a get of a key within TTL of its
\* latest set, with no clear in between, returns the payload of that set.
C15_UpsertLastWriteWins ==
    /\ \A r, s \in cache : SameKey(r, s) => r = s
    /\ \A k \in CacheKeys :
          (got.op = "get" /\ got.key = k /\ last_set[k] # None
              /\ got.at - last_set[k][1].at <= ttl_seconds)
              => got.result = Some(last_set[k][1].data)

\* the key was set, set again a second later with another payload, and read
\* when the second entry was exactly ttl old
C15_Witness ==
    /\ got.op = "get"
    /\ got.key = << "steamdb_app", 570 >>
    /\ last_set[got.key] # None
    /\ last_set[got.key][1].replaced
    /\ last_set[got.key][1].at = 1
    /\ got.at - last_set[got.key][1].at = ttl_seconds
    /\ got.result = Some(Payload(570, Some("1,000,000")))
    /\ Cardinality(cache) = 1

\* the entries the call found under its key and whether they were too old
FoundBy(call) == RowsOf(call.before, call.key[1], call.key[2])

ExpiredFor(call) == \E r \in FoundBy(call) : call.at - r.timestamp > ttl_seconds

\* C16: get returns no value exactly when the key is absent or
\* now - stored_at > ttl (an entry of age ttl is returned); a get of an
\* expired key removes that entry and no other, so the total of get_stats
\* goes down by one; any other get leaves the table as it was.
C16_GetExpiryAndEviction ==
    got.op = "get" =>
        /\ (got.result = None) <=> (FoundBy(got) = {} \/ ExpiredFor(got))
        /\ ExpiredFor(got) =>
              /\ cache = got.before \ FoundBy(got)
              /\ get_stats(cache).total = get_stats(got.before).total - 1
        /\ ~ExpiredFor(got) => cache = got.before

\* two entries a second older than ttl; the get of one evicted it alone
C16_Witness ==
    /\ got.op = "get"
    /\ got.result = None
    /\ got.at = ttl_seconds + 1
    /\ Cardinality(got.before) = 2
    /\ \A r \in got.before : r.timestamp = 0
    /\ Cardinality(cache) = 1
    /\ \A r \in cache : ~(r.endpoint = got.key[1] /\ r.appid = got.key[2])

\* an entry exactly ttl old is returned and stays
C16_WitnessAtTtl ==
    /\ got.op = "get"
    /\ got.result # None
    /\ \E r \in FoundBy(got) : got.at - r.timestamp = ttl_seconds
    /\ cache = got.before

----------------------------------------------------------------------------
(* scraper.steamdb_scraper.SteamDBScraper._get_html and its RateLimiter.   *)
(* Time is counted in tenths of a second.  The client keeps no clock of    *)
(* its own: the state holds the ages time.time() - _last_call and the time *)
(* since the last request, cut off at AgeCap, the largest interval they    *)
(* are compared with.  A response is taken to arrive as soon as the        *)
(* request is sent, the least time a request can take.                     *)

MaxRetries == 4

\* backoff = 1.0
backoff_start == 10

\* min(backoff * 2, 8)
backoff_cap == 80

\* rate_limit_seconds: the default 1.0 and a slower client
MinIntervals == { 10, 20 }

AgeCap == CHOOSE a \in MinIntervals : \A b \in MinIntervals : b <= a

\* random.random() * 0.5
Jitters == { 0, 4 }

\* 0.2 + random.random() * 0.6
SuccessDelays == { 2, 7 }

DEFAULT_USER_AGENTS == { "chrome", "firefox", "safari" }

\* an age after d more tenths
Later(age, d) == Min2(age + d, AgeCap)

\* the time since the last request, if there was one, after d more tenths
LaterRequest(age, d) == IF age = None THEN None ELSE Some(Later(age[1], d))

\* RateLimiter.wait sleeps min_interval - elapsed when elapsed < min_interval
WaitSleep(elapsed, interval) == IF elapsed < interval THEN interval - elapsed ELSE 0

\* the identities the header can hold when attempt number n is sent
UserAgentChoices(n, current) ==
    IF n > 1 THEN DEFAULT_USER_AGENTS ELSE {current}

\* the pause after a 403 that leaves the jitter out and halves the delay
PauseAfter403Half(base, jitter) == base \div 2

\* time.sleep(backoff + random.random() * 0.5)
PauseAfter403(base, jitter) == base + jitter

\* a backoff that is never doubled
BackoffAfter403Same(base) == base

\* backoff *= 2
BackoffAfter403(base) == base * 2

\* backoff = min(backoff * 2, 8)
BackoffAfterError(base) == Min2(base * 2, backoff_cap)

\* an outbound request: its number in the fetch, the time since the request
\* before it, whether rate_limiter.wait() was called for it, the identities
\* its header was taken from, and the outcome it follows within the fetch
Request(attempt, gap, waited, choices, follows) ==
    [attempt |-> attempt, gap |-> gap, waited |-> waited, choices |-> choices,
     follows |-> follows]

\* how a request ended: the kind of response, backoff when the pause began,
\* the pause, and backoff after it
Outcome(kind, base, pause, next) ==
    [kind |-> kind, base |-> base, pause |-> pause, next |-> next]

NoOutcome == Outcome("none", 0, 0, 0)

InitClient ==
    /\ pc = "idle"
    /\ min_interval \in MinIntervals
    /\ max_403_retries \in 0..MaxRetries
    /\ last_call_age = AgeCap
    /\ request_age = None
    /\ backoff = backoff_start
    /\ tries = 0
    /\ user_agent \in DEFAULT_USER_AGENTS
    /\ sent = Request(0, None, FALSE, {}, NoOutcome)
    /\ outcome = NoOutcome
    /\ html = None
    /\ IdleClassify /\ IdleNormalize /\ IdlePanel /\ IdleExtract /\ IdleCache /\ IdleTraffic /\ IdleControl /\ IdleFetch /\ IdleShared /\ IdleBatch

\* _get_html, lines 44-47: rate_limiter.wait(), backoff = 1.0, tries = 0
GetHtml ==
    /\ pc = "idle"
    /\ LET slept == WaitSleep(last_call_age, min_interval)
       IN  /\ last_call_age' = 0
           /\ request_age' = LaterRequest(request_age, slept)
    /\ backoff' = backoff_start
    /\ tries' = 0
    /\ pc' = "loop"
    /\ UNCHANGED << min_interval, max_403_retries, user_agent, sent, outcome, html,
                    classifyVars, normalizeVars, panelVars, extractVars, cacheVars,
                    trafficVars, controlVars, fetchVars,
                    sharedVars, batchVars >>

\* one iteration of the while loop, lines 48-69: the request and what
\* follows its response
Attempt ==
    /\ pc = "loop"
    /\ tries <= max_403_retries
    /\ tries' = tries + 1
    /\ user_agent' \in UserAgentChoices(tries + 1, user_agent)
    /\ sent' = Request(tries + 1,
                       request_age,
                       tries = 0,
                       UserAgentChoices(tries + 1, user_agent),
                       IF tries = 0 THEN NoOutcome ELSE outcome)
    /\ \E kind \in {"403", "error", "ok"} :
          \/ /\ kind = "403"
             /\ \E jitter \in Jitters :
                   LET pause == PauseAfter403(backoff, jitter)
                   IN  /\ outcome' = Outcome(kind, backoff, pause, BackoffAfter403(backoff))
                       /\ last_call_age' = Later(last_call_age, pause)
                       /\ request_age' = Some(Later(0, pause))
             /\ backoff' = BackoffAfter403(backoff)
             /\ UNCHANGED << pc, html, trafficVars, controlVars, fetchVars, sharedVars,
                    batchVars >>
          \/ /\ kind = "error"
             /\ outcome' = Outcome(kind, backoff, backoff, BackoffAfterError(backoff))
             /\ last_call_age' = Later(last_call_age, backoff)
             /\ request_age' = Some(Later(0, backoff))
             /\ backoff' = BackoffAfterError(backoff)
             /\ UNCHANGED << pc, html, trafficVars, controlVars, fetchVars, sharedVars,
                    batchVars >>
          \/ /\ kind = "ok"
             /\ \E delay \in SuccessDelays :
                   /\ outcome' = Outcome(kind, backoff, delay, backoff)
                   /\ last_call_age' = Later(last_call_age, delay)
                   /\ request_age' = Some(Later(0, delay))
             /\ html' = Some("text")
             /\ pc' = "idle"
             /\ UNCHANGED backoff
    /\ UNCHANGED << min_interval, max_403_retries,
                    classifyVars, normalizeVars, panelVars, extractVars, cacheVars,
                    trafficVars, controlVars, fetchVars,
                    sharedVars, batchVars >>

\* line 70: the loop ran out of tries
GiveUp ==
    /\ pc = "loop"
    /\ tries > max_403_retries
    /\ html' = None
    /\ pc' = "idle"
    /\ UNCHANGED << min_interval, max_403_retries, last_call_age, request_age,
                    backoff, tries, user_agent, sent, outcome,
                    classifyVars, normalizeVars, panelVars, extractVars, cacheVars,
                    trafficVars, controlVars, fetchVars,
                    sharedVars, batchVars >>

\* a second passes between two calls of _get_html
Pass ==
    /\ pc = "idle"
    /\ last_call_age' = Later(last_call_age, 10)
    /\ request_age' = LaterRequest(request_age, 10)
    /\ \/ last_call_age' # last_call_age
       \/ request_age' # request_age
    /\ UNCHANGED << pc, min_interval, max_403_retries,
                    backoff, tries, user_agent, sent, outcome, html,
                    classifyVars, normalizeVars, panelVars, extractVars, cacheVars,
                    trafficVars, controlVars, fetchVars,
                    sharedVars, batchVars >>

NextClient == GetHtml \/ Attempt \/ GiveUp \/ Pass

SpecClient == InitClient /\ [][NextClient]_vars

----------------------------------------------------------------------------
(* Properties of the SteamDB client (specification SpecClient)             *)

\* C17: any two consecutive outbound requests of one client are at least
\* the client's minimum interval apart, retries and the fetch after a
\* retried fetch included.
C17_MinIntervalBetweenRequests ==
    sent.gap # None => sent.gap[1] >= min_interval

\* C18: every 403 is followed by a pause of at least the current base delay
\* before the next attempt; the base delay starts at 1 second and doubles
\* after each 403; the identity string is re-selected from the fixed pool
\* before every attempt after the first.
C18_BackoffAndRotationOn403 ==
    /\ outcome.kind = "403" =>
          /\ outcome.pause >= outcome.base
          /\ outcome.next = 2 * outcome.base
    /\ sent.follows.kind = "403" =>
          /\ sent.gap # None
          /\ sent.gap[1] >= Min2(sent.follows.pause, AgeCap)
    /\ sent.attempt = 1 => outcome.base = backoff_start
    /\ pc = "loop" =>
          backoff = IF tries = 0 THEN backoff_start ELSE outcome.next
    /\ sent.attempt > 1 =>
          /\ sent.choices = DEFAULT_USER_AGENTS
          /\ user_agent \in DEFAULT_USER_AGENTS

\* the third 403 in a row: the base delay is 4 seconds, the pause 4.4
C18_Witness ==
    /\ pc = "loop"
    /\ sent.attempt = 3
    /\ sent.follows.kind = "403"
    /\ sent.follows.base = 2 * backoff_start
    /\ outcome = Outcome("403", 4 * backoff_start, 4 * backoff_start + 4,
                         8 * backoff_start)
    /\ user_agent = "safari"

\* C19: one fetch makes at most max_403_retries + 1 attempts whatever the
\* responses are, and never pauses longer than the 8-second cap after a
\* failure other than a 403.
C19_BoundedAttemptsCappedPause ==
    /\ sent.attempt <= max_403_retries + 1
    /\ tries <= max_403_retries + 1
    /\ outcome.kind = "error" => outcome.pause <= backoff_cap

----------------------------------------------------------------------------
(* The outbound requests of build_panel: the news request of every game    *)
(* (extract_patches_for_games), then per game store.fetch_app,             *)
(* steamdb.fetch_app and fetch_monthly_series.                             *)

default_max_403_retries == 3

\* an outbound request: who sent it, for which game, and whether the sender
\* called rate_limiter.wait() for it
Req(client, appid, waited) ==
    [client |-> client, appid |-> appid, waited |-> waited]

StoreKey(appid) == << "store_appdetails", appid >>

SteamDBKey(appid) == << "steamdb_app", appid >>

\* the keys a cache left by an earlier run can hold
BuildKeys == {StoreKey(a) : a \in AppIds} \cup {SteamDBKey(a) : a \in AppIds}

\* _get_html: k requests, the first after rate_limiter.wait()
GetHtmlRequests(appid, k) == [i \in 1..k |-> Req("steamdb", appid, i = 1)]

InitTraffic ==
    /\ pc = "news"
    /\ build_appids \in SeqsUpTo(AppIds, MaxGames)
    /\ game = 1
    /\ cached \in SUBSET BuildKeys
    /\ requests = << >>
    /\ IdleClassify /\ IdleNormalize /\ IdlePanel /\ IdleExtract /\ IdleCache
    /\ IdleClient /\ IdleControl /\ IdleFetch /\ IdleShared /\ IdleBatch

\* extract_patches_for_games, one game: fetch_news_for_app calls requests.get
FetchNews ==
    /\ pc = "news"
    /\ game <= Len(build_appids)
    /\ requests' = << Req("news", build_appids[game], FALSE) >>
    /\ game' = game + 1
    /\ UNCHANGED << pc, build_appids, cached,
                    classifyVars, normalizeVars, panelVars, extractVars,
                    cacheVars, clientVars, controlVars,
                    fetchVars, sharedVars, batchVars >>

\* extraction returns, the loop of build_panel starts
ExtractionReturns ==
    /\ pc = "news"
    /\ game > Len(build_appids)
    /\ pc' = "store"
    /\ game' = 1
    /\ requests' = << >>
    /\ UNCHANGED << build_appids, cached,
                    classifyVars, normalizeVars, panelVars, extractVars,
                    cacheVars, clientVars, controlVars,
                    fetchVars, sharedVars, batchVars >>

\* store.fetch_app: the cached entry, or safe_get (wait, then session.get)
\* and cache.set when the answer was usable
FetchStore ==
    /\ pc = "store"
    /\ game <= Len(build_appids)
    /\ LET appid == build_appids[game]
       IN  IF StoreKey(appid) \in cached
           THEN requests' = << >> /\ cached' = cached
           ELSE /\ requests' = << Req("store", appid, TRUE) >>
                /\ \E answer \in {"ok", "no_success", "raised"} :
                      cached' = IF answer = "ok"
                                THEN cached \cup {StoreKey(appid)} ELSE cached
    /\ pc' = "steamdb"
    /\ UNCHANGED << build_appids, game,
                    classifyVars, normalizeVars, panelVars, extractVars,
                    cacheVars, clientVars, controlVars,
                    fetchVars, sharedVars, batchVars >>

\* steamdb.fetch_app: the cached entry, or _get_html (one wait, then up to
\* max_403_retries + 1 requests) and cache.set when html came back
FetchSteamDB ==
    /\ pc = "steamdb"
    /\ LET appid == build_appids[game]
       IN  IF SteamDBKey(appid) \in cached
           THEN requests' = << >> /\ cached' = cached
           ELSE \E k \in 1..(default_max_403_retries + 1), got_html \in BOOLEAN :
                   /\ k <= default_max_403_retries => got_html
                   /\ requests' = GetHtmlRequests(appid, k)
                   /\ cached' = IF got_html
                                THEN cached \cup {SteamDBKey(appid)} ELSE cached
    /\ pc' = "series"
    /\ UNCHANGED << build_appids, game,
                    classifyVars, normalizeVars, panelVars, extractVars,
                    cacheVars, clientVars, controlVars,
                    fetchVars, sharedVars, batchVars >>

\* fetch_monthly_series calls requests.get
FetchSeries ==
    /\ pc = "series"
    /\ requests' = << Req("series", build_appids[game], FALSE) >>
    /\ game' = game + 1
    /\ pc' = "store"
    /\ UNCHANGED << build_appids, cached,
                    classifyVars, normalizeVars, panelVars, extractVars,
                    cacheVars, clientVars, controlVars,
                    fetchVars, sharedVars, batchVars >>

\* the loop is over, the panel is written
PanelWritten ==
    /\ pc = "store"
    /\ game > Len(build_appids)
    /\ pc' = "built"
    /\ requests' = << >>
    /\ UNCHANGED << build_appids, game, cached,
                    classifyVars, normalizeVars, panelVars, extractVars,
                    cacheVars, clientVars, controlVars,
                    fetchVars, sharedVars, batchVars >>

NextTraffic ==
    \/ FetchNews \/ ExtractionReturns \/ FetchStore \/ FetchSteamDB
    \/ FetchSeries \/ PanelWritten

SpecTraffic == InitTraffic /\ [][NextTraffic]_vars

----------------------------------------------------------------------------
(* Properties of the requests of build_panel (specification SpecTraffic)   *)

\* C20: during a panel build every outbound request, for store metadata,
\* SteamDB, news items or the monthly series, is sent only after the
\* issuing client has waited on its rate limiter.
C20_EveryRequestAfterLimiterWait ==
    \A i \in 1..Len(requests) : requests[i].waited

----------------------------------------------------------------------------
(* Further properties of extract_patches_for_games (SpecExtract)           *)

\* the GamePatchSummary values of the returned summary, of both runs
SummariesReturned ==
    {summaries[k] : k \in DOMAIN summaries}
        \cup {rerun_summary[k] : k \in DOMAIN rerun_summary}

\* C29: every GamePatchSummary has total_patches = major_patches +
\* minor_patches with all three non-negative; has_major_patch holds exactly
\* when major_patches > 0 and exactly when first_major_patch_date is
\* non-null; last_patch_date is non-null exactly when total_patches > 0;
\* and when both dates are present first_major_patch_date <= last_patch_date.
C29_SummaryArithmetic ==
    \A s \in SummariesReturned :
        /\ s.total_patches = s.major_patches + s.minor_patches
        /\ s.total_patches >= 0 /\ s.major_patches >= 0 /\ s.minor_patches >= 0
        /\ s.has_major_patch <=> s.major_patches > 0
        /\ s.has_major_patch <=> s.first_major_patch_date # None
        /\ s.last_patch_date # None <=> s.total_patches > 0
        /\ (s.first_major_patch_date # None /\ s.last_patch_date # None) =>
              ~StrLess(s.last_patch_date[1], s.first_major_patch_date[1])

\* a game with a major and a later minor patch: both dates, the first before
\* the second
C29_Witness ==
    \E s \in SummariesReturned :
        /\ s.major_patches = 1 /\ s.minor_patches = 1 /\ s.total_patches = 2
        /\ s.has_major_patch
        /\ StrLess(s.first_major_patch_date[1], s.last_patch_date[1])

\* a game with minor patches only: a last date and no first major date
C29_WitnessMinorOnly ==
    \E s \in SummariesReturned :
        /\ s.minor_patches > 0 /\ s.major_patches = 0
        /\ ~s.has_major_patch
        /\ s.first_major_patch_date = None /\ s.last_patch_date # None

\* the records of the returned list that belong to appid
RecordCount(appid) ==
    Cardinality({j \in 1..Len(all_patches) : all_patches[j].appid = appid})

\* total_patches added up over the summaries under the keys
RECURSIVE TotalPatchesOver(_)
TotalPatchesOver(keys) ==
    IF keys = {} THEN 0
    ELSE LET k == CHOOSE x \in keys : TRUE
         IN  summaries[k].total_patches + TotalPatchesOver(keys \ {k})

\* C28: for every input list of game ids, also one that names an id more
\* than once, the number of PatchRecords of the returned records list that
\* belong to a game equals the game's total_patches in the returned summary,
\* and the length of the records list is the sum of total_patches over all
\* summaries.
C28_RecordsMatchTotalPatches ==
    pc = "extracted" =>
        /\ \A g \in 1..Len(games) :
              RecordCount(games[g]) = SummaryAt(g).total_patches
        /\ Len(all_patches) = TotalPatchesOver(DOMAIN summaries)

----------------------------------------------------------------------------
(* build_panel, the body of its loop for one control game whose series     *)
(* has points without avg or without peak                                  *)

PtFebNoAvg == Point(<< 2024, 2, 1 >>, NaN, 40)

PtFebNoPeak == Point(<< 2024, 2, 10 >>, 30, NaN)

PtMarNeither == Point(<< 2024, 3, 1 >>, NaN, NaN)

\* points fetch_monthly_series can return: avg and peak are float(item[k])
\* or None
ControlPoints ==
    { PtJan05, PtJan20, PtDec01, PtBad, PtFebNoAvg, PtFebNoPeak, PtMarNeither }

\* the column f of the fetched frame holds no number at all
NoNumber(raw, f) == raw # << >> /\ \A k \in 1..Len(raw) : raw[k][f] = NaN

\* the summary of a game without a major patch: no entry, or no major date
ControlSummaries(appid) ==
    { << >>,
      IntKey(appid) :> [total_patches |-> 0, major_patches |-> 0,
                        minor_patches |-> 0, has_major_patch |-> FALSE,
                        first_major_patch_date |-> None,
                        last_patch_date |-> None] }

InitControl ==
    /\ pc = "control"
    /\ control_series \in SeqsUpTo(ControlPoints, MaxPoints)
    /\ control_rows = << >>
    /\ IdleClassify /\ IdleNormalize /\ IdlePanel /\ IdleExtract /\ IdleCache
    /\ IdleClient /\ IdleTraffic /\ IdleFetch /\ IdleShared /\ IdleBatch

\* lines 117-203 for a control game.  A column of None only has dtype
\* object: depending on the pandas version the groupby then raises and
\* float(None) ends build_panel, or the column aggregates to NaN
BuildControlRows ==
    /\ pc = "control"
    /\ \E summary \in ControlSummaries(570),
          raised \in IF NoNumber(control_series, "avg")
                        \/ NoNumber(control_series, "peak")
                     THEN BOOLEAN ELSE {FALSE} :
          IF raised
          THEN pc' = "control_raised" /\ control_rows' = << >>
          ELSE /\ pc' = "control_built"
               /\ control_rows' =
                      PanelRows(570, summary, None, None,
                                NormalizeSeries(control_series))
    /\ UNCHANGED << control_series, classifyVars, normalizeVars, panelVars,
                    extractVars, cacheVars, clientVars, trafficVars,
                    fetchVars, sharedVars, batchVars >>

NextControl == BuildControlRows

SpecControl == InitControl /\ [][NextControl]_vars

----------------------------------------------------------------------------
(* Properties of the rows of a control game (specification SpecControl)    *)

ControlFrame == NormalizeSeries(control_series)

ControlRow(rel) == control_rows[rel + 5]

\* C27: for every control game (treatment = 0) with a non-empty normalized
\* series the rel_month = 0 row has non-null avg_players and peak_players
\* taken from the latest month of the series, and every row with
\* rel_month > 0 has null avg_players and null peak_players.
C27_ControlAnchorObservedNoneAfter ==
    (pc = "control_built" /\ ControlFrame # << >>) =>
        LET latest == ControlFrame[Len(ControlFrame)]
        IN  /\ \A rel \in -4..4 : ControlRow(rel).treatment = 0
            /\ ControlRow(0).avg_players = Some(latest.avg)
            /\ ControlRow(0).peak_players = Some(latest.peak)
            /\ \A rel \in 1..4 :
                  /\ ControlRow(rel).avg_players = None
                  /\ ControlRow(rel).peak_players = None

----------------------------------------------------------------------------
(* fetch_app of the store and the SteamDB client build_panel constructs,   *)
(* over the cache table they share                                         *)

\* db_path of SteamCache()
DefaultDb == "steam_cache.db"

\* line 77 of build_panel: cache = SteamCache() if use_cache else None
BuildCache(flag) == IF flag THEN Some(DefaultDb) ELSE None

\* self.cache = cache or SteamCache(), in both clients
ClientCache(given) == OrElse(given, Some(DefaultDb))

\* the record store.fetch_app normalises from a usable answer
StorePayload(appid) ==
    (StrKey("appid") :> appid) @@ (StrKey("name") :> Some(<< "app", appid >>))

\* the dict steamdb.fetch_app returns
SteamDBPayload(appid, owners, snippet) ==
    (StrKey("appid") :> appid) @@ (StrKey("owners") :> owners)
        @@ (StrKey("raw_html_snippet") :> snippet)

\* a row of the table: the stored text, and whether
\* time.time() - timestamp > ttl_seconds by now
Entry(data_str, expired) == [data |-> data_str, expired |-> expired]

\* cache.get: the value, the table it leaves and the statements that wrote
CacheLookup(table, key) ==
    IF key \notin DOMAIN table
    THEN [value |-> None, table |-> table, writes |-> 0]
    ELSE IF table[key].expired
    THEN [value |-> None,
          table |-> [k \in DOMAIN table \ {key} |-> table[k]],
          writes |-> 1]
    ELSE [value |-> Some(JsonLoads(table[key].data)), table |-> table,
          writes |-> 0]

\* cache.set
CacheStore(table, key, data) ==
    DictSet(table, key, Entry(JsonDumps(data), FALSE))

\* what one fetch_app call did: the value returned (None also when it
\* raised), the table it left, and the requests, rate_limiter.wait() calls,
\* cache reads and cache writes it made
Fetched(returned, raised, table, sends, waits, reads, writes) ==
    [returned |-> returned, raised |-> raised, table |-> table,
     sends |-> sends, waits |-> waits, reads |-> reads, writes |-> writes]

\* store.fetch_app looking at the cache after the request
StoreFetchAppRequestFirst(table, appid, answer) ==
    LET key == StoreKey(appid)
    IN  IF answer \in {"raised", "not_json"}
        THEN Fetched(None, TRUE, table, 1, 1, 0, 0)
        ELSE IF answer = "no_success"
        THEN Fetched(None, FALSE, table, 1, 1, 0, 0)
        ELSE Fetched(Some(StorePayload(appid)), FALSE,
                     CacheStore(table, key, StorePayload(appid)), 1, 1, 0, 1)

\* store.fetch_app: lines 21-56.  answer is what the request came to when
\* one is sent: it raised (timeout, HTTP error), the body is not JSON, the
\* body has no success for the appid, or it is usable
StoreFetchApp(table, appid, answer) ==
    LET key == StoreKey(appid)
        looked == CacheLookup(table, key)
    IN  IF looked.value # None
        THEN Fetched(looked.value, FALSE, looked.table, 0, 0, 1, looked.writes)
        ELSE IF answer \in {"raised", "not_json"}
        THEN Fetched(None, TRUE, looked.table, 1, 1, 1, looked.writes)
        ELSE IF answer = "no_success"
        THEN Fetched(None, FALSE, looked.table, 1, 1, 1, looked.writes)
        ELSE Fetched(Some(StorePayload(appid)), FALSE,
                     CacheStore(looked.table, key, StorePayload(appid)),
                     1, 1, 1, looked.writes + 1)

\* steamdb.fetch_app storing what it returns also when no page came back
SteamDBFetchAppStoreAlways(table, appid, answer, k) ==
    LET key == SteamDBKey(appid)
        looked == CacheLookup(table, key)
        result == SteamDBPayload(appid,
                     IF answer = "owners" THEN Some("1,000,000") ELSE None,
                     IF answer = "exhausted" THEN None ELSE Some("html"))
    IN  IF looked.value # None
        THEN Fetched(looked.value, FALSE, looked.table, 0, 0, 1, looked.writes)
        ELSE Fetched(Some(result), FALSE, CacheStore(looked.table, key, result),
                     k, 1, 1, looked.writes + 1)

\* steamdb.fetch_app: lines 88-126.  answer is what _get_html came to after
\* k requests: None (exhausted), a page with an owners figure, or a page
\* without one
SteamDBFetchApp(table, appid, answer, k) ==
    LET key == SteamDBKey(appid)
        looked == CacheLookup(table, key)
        result == SteamDBPayload(appid,
                     IF answer = "owners" THEN Some("1,000,000") ELSE None,
                     Some("html"))
    IN  IF looked.value # None
        THEN Fetched(looked.value, FALSE, looked.table, 0, 0, 1, looked.writes)
        ELSE IF answer = "exhausted"
        THEN Fetched(Some(SteamDBPayload(appid, None, None)), FALSE,
                     looked.table, k, 1, 1, looked.writes)
        ELSE Fetched(Some(result), FALSE, CacheStore(looked.table, key, result),
                     k, 1, 1, looked.writes + 1)

StoreAnswers == {"ok", "no_success", "not_json", "raised"}

SteamDBAnswers == {"owners", "no_owners", "exhausted"}

\* the call, the table before it, and what it did
FetchCall(client, appid, answer, before, did) ==
    [client |-> client, appid |-> appid, answer |-> answer,
     before |-> before, did |-> did]

NoFetch ==
    FetchCall("none", 0, "none", << >>, Fetched(None, FALSE, << >>, 0, 0, 0, 0))

InitFetch ==
    /\ pc = "fetch"
    /\ use_cache \in BOOLEAN
    /\ entries = << >>
    /\ last_fetch = NoFetch
    /\ IdleClassify /\ IdleNormalize /\ IdlePanel /\ IdleExtract /\ IdleCache
    /\ IdleClient /\ IdleTraffic /\ IdleControl /\ IdleShared /\ IdleBatch

\* store.fetch_app(appid) of the client built with cache = BuildCache(use_cache)
FetchStoreApp ==
    /\ pc = "fetch"
    /\ ClientCache(BuildCache(use_cache)) = Some(DefaultDb)
    /\ \E appid \in AppIds, answer \in StoreAnswers :
          LET did == StoreFetchApp(entries, appid, answer)
          IN  /\ last_fetch' = FetchCall("store", appid, answer, entries, did)
              /\ entries' = did.table
    /\ UNCHANGED << pc, use_cache, classifyVars, normalizeVars, panelVars,
                    extractVars, cacheVars, clientVars, trafficVars,
                    controlVars, sharedVars, batchVars >>

\* steamdb.fetch_app(appid) of the client built likewise
FetchSteamDBApp ==
    /\ pc = "fetch"
    /\ ClientCache(BuildCache(use_cache)) = Some(DefaultDb)
    /\ \E appid \in AppIds, answer \in SteamDBAnswers,
          k \in 1..(default_max_403_retries + 1) :
          /\ answer = "exhausted" => k = default_max_403_retries + 1
          /\ LET did == SteamDBFetchApp(entries, appid, answer, k)
             IN  /\ last_fetch' = FetchCall("steamdb", appid, answer, entries, did)
                 /\ entries' = did.table
    /\ UNCHANGED << pc, use_cache, classifyVars, normalizeVars, panelVars,
                    extractVars, cacheVars, clientVars, trafficVars,
                    controlVars, sharedVars, batchVars >>

\* more than ttl_seconds pass: every row of the table is expired
TtlPasses ==
    /\ pc = "fetch"
    /\ \E k \in DOMAIN entries : ~entries[k].expired
    /\ entries' = [k \in DOMAIN entries |-> Entry(entries[k].data, TRUE)]
    /\ last_fetch' = NoFetch
    /\ UNCHANGED << pc, use_cache, classifyVars, normalizeVars, panelVars,
                    extractVars, cacheVars, clientVars, trafficVars,
                    controlVars, sharedVars, batchVars >>

NextFetch == FetchStoreApp \/ FetchSteamDBApp \/ TtlPasses

SpecFetch == InitFetch /\ [][NextFetch]_vars

----------------------------------------------------------------------------
(* Properties of fetch_app over the cache (specification SpecFetch)        *)

Called == last_fetch.client # "none"

CallKey ==
    IF last_fetch.client = "store" THEN StoreKey(last_fetch.appid)
    ELSE SteamDBKey(last_fetch.appid)

\* the table held an unexpired row for the key when the call began
Hit == CallKey \in DOMAIN last_fetch.before /\ ~last_fetch.before[CallKey].expired

\* C23: a fetch whose response cannot be parsed as the expected payload (a
\* SteamDB page without owners data, a store body that is not JSON or has
\* success = false) is treated as absent: the caller gets no payload and
\* nothing is written to the cache for the key.
C23_UnparsableTreatedAsAbsent ==
    (Called /\ ~Hit /\ last_fetch.answer \in {"no_owners", "not_json", "no_success"}) =>
        /\ last_fetch.did.returned = None
        /\ CallKey \notin DOMAIN last_fetch.did.table

\* C24: when the cache holds an unexpired entry for (endpoint, appid),
\* fetch_app of the store and of the SteamDB client returns that entry
\* without sending a request, without waiting on the rate limiter and
\* without changing the cache.
C24_CacheHitNoRequestNoChange ==
    (Called /\ Hit) =>
        /\ last_fetch.did.returned =
               Some(JsonLoads(last_fetch.before[CallKey].data))
        /\ ~last_fetch.did.raised
        /\ last_fetch.did.sends = 0
        /\ last_fetch.did.waits = 0
        /\ last_fetch.did.writes = 0
        /\ last_fetch.did.table = last_fetch.before
        /\ entries = last_fetch.before

C24_Witness ==
    /\ Called /\ Hit
    /\ last_fetch.client = "store"
    /\ last_fetch.answer = "raised"
    /\ last_fetch.did.returned = Some(StorePayload(last_fetch.appid))
    /\ last_fetch.did.sends = 0

C24_WitnessSteamDB ==
    /\ Called /\ Hit
    /\ last_fetch.client = "steamdb"
    /\ last_fetch.answer = "exhausted"
    /\ last_fetch.did.returned =
           Some(SteamDBPayload(last_fetch.appid, Some("1,000,000"), Some("html")))
    /\ last_fetch.did.sends = 0

\* the call sent requests and no response came back
NoResponse == Called /\ ~Hit /\ last_fetch.answer \in {"exhausted", "raised"}

\* C25 as the spec words it: a fetch that obtained no response leaves the
\* cache unchanged.
C25_FailedFetchCacheUnchanged ==
    NoResponse => last_fetch.did.table = last_fetch.before

\* C25: a fetch that obtained no response stores nothing: it leaves the
\* table without a row for its key, every other row as it was, and the only
\* row it can remove is the expired row of its key; so the next fetch_app
\* for the appid sends requests again.  A row is stored only by a fetch that
\* received a response.
C25_FailedFetchStoresNothing ==
    /\ NoResponse =>
          /\ CallKey \notin DOMAIN last_fetch.did.table
          /\ last_fetch.did.table =
                 [k \in DOMAIN last_fetch.before \ {CallKey} |-> last_fetch.before[k]]
          /\ CallKey \in DOMAIN last_fetch.before =>
                 last_fetch.before[CallKey].expired
          /\ last_fetch.did.sends >= 1
          /\ \A answer \in StoreAnswers :
                StoreFetchApp(entries, last_fetch.appid, answer).sends >= 1
                    \/ last_fetch.client # "store"
          /\ \A answer \in SteamDBAnswers :
                SteamDBFetchApp(entries, last_fetch.appid, answer, 1).sends >= 1
                    \/ last_fetch.client # "steamdb"
    /\ Called =>
          \A k \in DOMAIN last_fetch.did.table :
              (k \notin DOMAIN last_fetch.before
                  \/ last_fetch.did.table[k] # last_fetch.before[k]) =>
                  /\ k = CallKey
                  /\ last_fetch.answer \in {"ok", "owners", "no_owners"}

\* retries exhausted while the table held an expired row of the key: the row
\* is gone and nothing took its place
C25_Witness ==
    /\ NoResponse
    /\ last_fetch.client = "steamdb"
    /\ CallKey \in DOMAIN last_fetch.before
    /\ CallKey \notin DOMAIN entries
    /\ last_fetch.did.sends = default_max_403_retries + 1

\* the store request raised and the table is as it was
C25_WitnessStoreRaised ==
    /\ NoResponse
    /\ last_fetch.client = "store"
    /\ entries = last_fetch.before
    /\ entries # << >>

\* C26: build_panel called with use_cache = False performs no cache read and
\* no cache write: the clients it builds have no cache and every fetch_app
\* goes to the network.
C26_NoCacheWhenDisabled ==
    (Called /\ ~use_cache) =>
        /\ last_fetch.did.reads = 0
        /\ last_fetch.did.writes = 0
        /\ last_fetch.did.sends >= 1

----------------------------------------------------------------------------
(* SteamCache.get and SteamCache.set called by concurrent callers, each    *)
(* call on a connection of its own to the same database file               *)

NumCallers == 2

Callers == 1..NumCallers

\* the caller has run a writing statement and not yet committed: it holds
\* the reserved lock of the file
Writing(c) == caller_pc[c] = "writing"

\* the caller's SELECT returned an expired row and its cursor is still open;
\* whether that keeps the shared lock depends on the sqlite3 module
HoldsShared(c) == keeps_lock /\ caller_pc[c] = "read"

InitShared ==
    /\ pc = "shared"
    /\ keeps_lock \in BOOLEAN
    /\ shared_row \in {None} \cup
           {Some(Entry(JsonDumps(p), e)) : p \in Payloads, e \in BOOLEAN}
    /\ caller_pc = [c \in Callers |-> "idle"]
    /\ caller_read = [c \in Callers |-> None]
    /\ caller_op = [c \in Callers |-> << "none" >>]
    /\ caller_result = [c \in Callers |-> << "none" >>]
    /\ lost = FALSE
    /\ IdleClassify /\ IdleNormalize /\ IdlePanel /\ IdleExtract /\ IdleCache
    /\ IdleClient /\ IdleTraffic /\ IdleControl /\ IdleFetch /\ IdleBatch

\* get, lines 33-42: the SELECT and fetchone, and the return when there is
\* no row or the row is within its time to live
GetSelect(c) ==
    /\ pc = "shared"
    /\ caller_pc[c] = "idle"
    /\ IF shared_row = None
       THEN /\ caller_result' = [caller_result EXCEPT ![c] = << "get", None >>]
            /\ UNCHANGED << caller_pc, caller_read, batchVars >>
       ELSE IF ~shared_row[1].expired
       THEN /\ caller_result' =
                   [caller_result EXCEPT
                       ![c] = << "get", Some(JsonLoads(shared_row[1].data)) >>]
            /\ UNCHANGED << caller_pc, caller_read, batchVars >>
       ELSE /\ caller_pc' = [caller_pc EXCEPT ![c] = "read"]
            /\ caller_read' = [caller_read EXCEPT ![c] = shared_row]
            /\ caller_result' = [caller_result EXCEPT ![c] = << "none" >>]
    /\ UNCHANGED << pc, keeps_lock, shared_row, caller_op, lost,
                    classifyVars, normalizeVars, panelVars, extractVars,
                    cacheVars, clientVars, trafficVars, controlVars,
                    fetchVars, batchVars >>

\* get, line 45: the DELETE of the key.  It needs the reserved lock: while
\* another caller holds it the statement waits, or fails at once with
\* "database is locked" when this caller still holds its shared lock
GetDelete(c) ==
    /\ pc = "shared"
    /\ caller_pc[c] = "read"
    /\ IF \E d \in Callers \ {c} : Writing(d)
       THEN /\ keeps_lock
            /\ caller_pc' = [caller_pc EXCEPT ![c] = "idle"]
            /\ caller_result' = [caller_result EXCEPT ![c] = << "locked" >>]
            /\ UNCHANGED caller_op
       ELSE /\ caller_pc' = [caller_pc EXCEPT ![c] = "writing"]
            /\ caller_op' = [caller_op EXCEPT ![c] = << "delete" >>]
            /\ UNCHANGED caller_result
    /\ UNCHANGED << pc, keeps_lock, shared_row, caller_read, lost,
                    classifyVars, normalizeVars, panelVars, extractVars,
                    cacheVars, clientVars, trafficVars, controlVars,
                    fetchVars, batchVars >>

\* set, lines 53-56: the INSERT OR REPLACE, which needs the reserved lock
SetInsert(c) ==
    /\ pc = "shared"
    /\ caller_pc[c] = "idle"
    /\ \A d \in Callers \ {c} : ~Writing(d)
    /\ \E p \in Payloads :
          caller_op' = [caller_op EXCEPT ![c] = << "set", JsonDumps(p) >>]
    /\ caller_pc' = [caller_pc EXCEPT ![c] = "writing"]
    /\ caller_result' = [caller_result EXCEPT ![c] = << "none" >>]
    /\ UNCHANGED << pc, keeps_lock, shared_row, caller_read, lost,
                    classifyVars, normalizeVars, panelVars, extractVars,
                    cacheVars, clientVars, trafficVars, controlVars,
                    fetchVars, batchVars >>

\* conn.commit() of get (line 46) and of set (line 57): it waits until no
\* other connection holds a shared lock, then the statement takes effect
Commit(c) ==
    /\ pc = "shared"
    /\ Writing(c)
    /\ \A d \in Callers \ {c} : ~HoldsShared(d)
    /\ IF caller_op[c] = << "delete" >>
       THEN /\ shared_row' = None
            /\ lost' = (lost \/ (shared_row # None /\ ~shared_row[1].expired))
            /\ caller_result' = [caller_result EXCEPT ![c] = << "get", None >>]
       ELSE /\ shared_row' = Some(Entry(caller_op[c][2], FALSE))
            /\ lost' = lost
            /\ caller_result' = [caller_result EXCEPT ![c] = << "set" >>]
    /\ caller_pc' = [caller_pc EXCEPT ![c] = "idle"]
    /\ caller_op' = [caller_op EXCEPT ![c] = << "none" >>]
    /\ UNCHANGED << pc, keeps_lock, caller_read,
                    classifyVars, normalizeVars, panelVars, extractVars,
                    cacheVars, clientVars, trafficVars, controlVars,
                    fetchVars, batchVars >>

\* more than ttl_seconds pass since the row was written
RowExpires ==
    /\ pc = "shared"
    /\ shared_row # None /\ ~shared_row[1].expired
    /\ shared_row' = Some(Entry(shared_row[1].data, TRUE))
    /\ UNCHANGED << pc, keeps_lock, caller_pc, caller_read, caller_op,
                    caller_result, lost,
                    classifyVars, normalizeVars, panelVars, extractVars,
                    cacheVars, clientVars, trafficVars, controlVars,
                    fetchVars, batchVars >>

NextShared ==
    \/ \E c \in Callers : GetSelect(c) \/ GetDelete(c) \/ SetInsert(c) \/ Commit(c)
    \/ RowExpires

SpecShared == InitShared /\ [][NextShared]_vars

----------------------------------------------------------------------------
(* Properties of the shared cache (specification SpecShared)               *)

\* C22: with two or more concurrent callers on the same cache every
\* interleaving of get and set behaves like some serial order of whole
\* operations: a get that read an expired entry never deletes an entry that
\* a concurrent set wrote for the key after that read (so a later get within
\* the time to live of that set returns its payload), and no operation ends
\* in a way no serial order has.
C22_ConcurrentCallsSerialize ==
    /\ ~lost
    /\ \A c \in Callers : caller_result[c] # << "locked" >>

----------------------------------------------------------------------------
(* build_panel over payloads that are failed, partial or malformed         *)

\* a JSON null where a string is expected
JsonNull == << "null" >>

\* the 'date' of the item is a number; a date that is text is carried under
\* date_text, numbers and strings not being comparable here
NumericDate(item) == "date_text" \notin DOMAIN item

ItNullTitle == [date |-> TsJan, title |-> JsonNull, contents |-> TxtNewGameMode]

ItNullTitleOld == [date |-> TsOld, title |-> JsonNull, contents |-> TxtNewGameMode]

ItTextDate ==
    [date_text |-> << "s", "o", "o", "n" >>, title |-> TxtMajorUpdate,
     contents |-> << >>]

\* what fetch_news_for_app can return: [] (the request failed or there is
\* no news), well-formed items, and items with a null title or a text date
BatchFeeds ==
    { << >>,
      << NewsItem(TsJan, TxtMajorUpdate, TxtNewGameMode) >>,
      << ItTextDate, NewsItem(TsNov, TxtHotfix, TxtFixedCrash) >>,
      << ItNullTitleOld >>,
      << NewsItem(TsJan, TxtMajorUpdate, << >>), ItNullTitle >> }

\* lines 169-182 for one item: utcfromtimestamp of a text raises inside the
\* try and the item is skipped, an old item is skipped, and for an item in
\* the window classify_patch evaluates title + " " + contents, which raises
\* TypeError when one of them is None
ItemRaises(item) ==
    /\ NumericDate(item)
    /\ UsableTimestamp(ItemGet(item, "date", 0))
    /\ ~DtLess(UtcFromTimestamp(ItemGet(item, "date", 0)), one_year_ago)
    /\ \/ ItemGet(item, "title", << >>) = JsonNull
       \/ ItemGet(item, "contents", << >>) = JsonNull

FeedRaises(news) == \E k \in 1..Len(news) : ItemRaises(news[k])

\* what fetch_monthly_series can return for the batch
BatchSeries ==
    { << >>,
      << PtBad >>,
      << PtDec01, PtJan05, PtJan20 >>,
      << PtJan05, PtFebNoAvg >>,
      << PtMarNeither >> }

\* the frame left as fetched when the groupby raised: its rows with a month
UngroupedFrame(raw) ==
    SelectSeq([k \in 1..Len(raw) |->
                  [ym   |-> ToMonthStart(ToDatetime(raw[k].date)),
                   avg  |-> raw[k].avg,
                   peak |-> raw[k].peak]],
              LAMBDA r : r.ym # NaT)

\* a column of None only, and one of the nine months is in the frame:
\* float(None) at lines 174-175 or 187-188 if the groupby raised
SeriesCanRaise(summary, appid, raw) ==
    /\ NoNumber(raw, "avg") \/ NoNumber(raw, "peak")
    /\ LET df == UngroupedFrame(raw)
           event_month == EventMonth(extract_last_major_date(summary, appid))
       IN  \E rel \in RelFrom..(RelTo - 1) :
              LET row_date == RowDate(event_month, df, rel)
              IN  row_date # None /\ Matched(df, row_date[1]) # << >>

\* the lists of appids of the batch
BatchCalls == { << 570 >>, << 570, 730 >> }

InitBatch ==
    /\ pc = "batch_extract"
    /\ batch_appids \in BatchCalls
    /\ batch_ex = 0
    /\ batch_summary = << >>
    /\ batch_fetched = << >>
    /\ batch_rows = << >>
    /\ IdleClassify /\ IdleNormalize /\ IdlePanel /\ IdleExtract /\ IdleCache
    /\ IdleClient /\ IdleTraffic /\ IdleControl /\ IdleFetch /\ IdleShared

\* extract_patches_for_games, one iteration; an exception of the loop body
\* leaves extract_patches_for_games and build_panel
BatchExtract ==
    /\ pc = "batch_extract"
    /\ batch_ex < Len(batch_appids)
    /\ \E news \in BatchFeeds :
          IF FeedRaises(news)
          THEN pc' = "batch_raised" /\ UNCHANGED << batch_ex, batch_summary >>
          ELSE /\ batch_summary' =
                      DictSet(batch_summary, IntKey(batch_appids[batch_ex + 1]),
                              Summarize(PatchesOf(batch_appids[batch_ex + 1],
                                                  SelectSeq(news, NumericDate))))
               /\ batch_ex' = batch_ex + 1
               /\ pc' = pc
    /\ UNCHANGED << batch_appids, batch_fetched, batch_rows,
                    classifyVars, normalizeVars, panelVars, extractVars,
                    cacheVars, clientVars, trafficVars, controlVars,
                    fetchVars, sharedVars >>

BatchExtractReturn ==
    /\ pc = "batch_extract"
    /\ batch_ex = Len(batch_appids)
    /\ pc' = "batch_panel"
    /\ UNCHANGED << batchVars,
                    classifyVars, normalizeVars, panelVars, extractVars,
                    cacheVars, clientVars, trafficVars, controlVars,
                    fetchVars, sharedVars >>

\* one iteration of the loop of build_panel: the two fetch_app calls inside
\* their try (None when they raised), the series, and the nine rows
BatchProcessApp ==
    /\ pc = "batch_panel"
    /\ Len(batch_fetched) < Len(batch_appids)
    /\ LET appid == batch_appids[Len(batch_fetched) + 1]
       IN  \E store_data \in StoreResults(appid), sdb \in SteamDBResults(appid),
              raw \in BatchSeries :
           \E raised \in IF SeriesCanRaise(batch_summary, appid, raw)
                         THEN BOOLEAN ELSE {FALSE} :
              IF raised
              THEN pc' = "batch_raised" /\ UNCHANGED << batch_fetched, batch_rows >>
              ELSE /\ batch_fetched' =
                          Append(batch_fetched,
                                 [store_data |-> store_data, sdb |-> sdb,
                                  series |-> raw])
                   /\ batch_rows' =
                          batch_rows \o PanelRows(appid, batch_summary, store_data,
                                                  sdb, NormalizeSeries(raw))
                   /\ pc' = pc
    /\ UNCHANGED << batch_appids, batch_ex, batch_summary,
                    classifyVars, normalizeVars, panelVars, extractVars,
                    cacheVars, clientVars, trafficVars, controlVars,
                    fetchVars, sharedVars >>

BatchWritePanel ==
    /\ pc = "batch_panel"
    /\ Len(batch_fetched) = Len(batch_appids)
    /\ pc' = "batch_done"
    /\ UNCHANGED << batchVars,
                    classifyVars, normalizeVars, panelVars, extractVars,
                    cacheVars, clientVars, trafficVars, controlVars,
                    fetchVars, sharedVars >>

NextBatch ==
    BatchExtract \/ BatchExtractReturn \/ BatchProcessApp \/ BatchWritePanel

SpecBatch == InitBatch /\ [][NextBatch]_vars

----------------------------------------------------------------------------
(* Properties of the batch (specification SpecBatch)                       *)

BatchRow(g, rel) == batch_rows[9 * (g - 1) + rel + 5]

\* C21: for every combination of per-game outcomes of the store, SteamDB,
\* news and series fetches (success, failure, malformed payload such as a
\* news item with a null title or a non-numeric date) no exception leaves
\* per-game processing: extraction and build_panel complete, and the panel
\* has nine rows for every input game with the failed data as null fields.
C21_NoExceptionFullPanel ==
    /\ pc # "batch_raised"
    /\ pc = "batch_done" =>
          /\ Len(batch_rows) = 9 * Len(batch_appids)
          /\ \A g \in 1..Len(batch_appids), rel \in -4..4 :
                /\ BatchRow(g, rel).appid = batch_appids[g]
                /\ BatchRow(g, rel).rel_month = rel
                /\ batch_fetched[g].store_data = None =>
                      /\ BatchRow(g, rel).name = None
                      /\ BatchRow(g, rel).metacritic_score = None
                /\ batch_fetched[g].sdb = None =>
                      BatchRow(g, rel).owners_estimate = None
                /\ batch_fetched[g].series = << >> =>
                      /\ BatchRow(g, rel).avg_players = None
                      /\ BatchRow(g, rel).peak_players = None

============================================================================
